---- MODULE Spec2Model ----
(***************************************************************************)
(* A model of openclaw-plugin-continuity: the Archiver's day files, the    *)
(* Indexer's tables, the per-agent state and its hook handlers, the lazy    *)
(* storage initialisation and the maintenance service.  Each component's   *)
(* methods are operators over its state; each specification below drives   *)
(* one component with the calls its callers make.                           *)
(***************************************************************************)
EXTENDS Integers, Sequences, FiniteSets, TLC

(***************************************************************************)
(* Bounds of the model.                                                     *)
(***************************************************************************)
\* Last instant of the model's clock (milliseconds in the code).
MaxClock == 2
\* Clock instants per calendar day.
DayLen == 2
\* Number of Archiver.archive calls in one run.
MaxCalls == 2
\* Longest message list of one day handed to Indexer.indexDay.
MaxDayMsgs == 3
\* Longest query of a hybrid search, in characters.
MaxQueryLen == 3
\* Last day of the prune runs (days are counted from 0).
MaxPruneDay == 3
\* Number of concurrent callers of one agent's ensureStorage.
NumCallers == 3
\* Number of execute() runs of one MaintenanceService.
MaxRuns == 3
\* Number of before_agent_start events of one agent.
MaxTurns == 1
\* Longest list of exchanges a search returns.
MaxResults == 4
\* Number of hook events and gateway calls the host delivers in one run.
MaxEvents == 3
\* Longest message list handed to ContextBudget.optimize.
MaxBudgetMsgs == 9
\* Longest candidate list one query of Searcher.search returns.
MaxCandidates == 3
\* Hook handlers of one agent that may be in flight in one behaviour.
MaxHandlers == 3
\* The tokens of a tracked text, and the value _currentExchange may reach.
MaxTextWords == 2
MaxExchange == 5
\* The messages agent_end archives in one behaviour.
MaxCoverMsgs == 3
\* Longest message list handed to ContinuityAnchors.detect.
MaxAnchorMsgs == 2
\* Last instant of the clock ContinuityAnchors reads.
MaxAnchorClock == 4
\* Longest message list handed to Compactor.compact.
MaxCompactMsgs == 3

Instants == 0..MaxClock
Dates == 0..(MaxClock \div DayLen)

VARIABLES
    \* ---- Archiver (one archive directory) ----
    files,          \* date -> messages of {archiveDir}/{date}.json (<<>>: no file)
    now,            \* Date.now()
    calls,          \* number of archive calls made
    stream,         \* the message stream M of the idempotence runs (<<>> otherwise)
    filesBefore,    \* the day files as they were before the stream was last archived
    inputRepeats,   \* the latest call's list itself repeated a (timestamp, sender)
    wrote,          \* the latest call wrote a day file that already held messages
    \* ---- Indexer (one continuity.db, one index-log.json) ----
    db,             \* [exchanges, vec, fts]: the rows of the three tables, by id
    indexLog,       \* the dates of index-log.json
    ipc,            \* indexDay call -> "idle", "embed" (awaiting _embed) or "done"
    idate,          \* indexDay call -> its date
    imsgs,          \* indexDay call -> the messages it was given
    ipairs,         \* indexDay call -> its exchanges (_pairExchanges of its messages)
    iidx,           \* indexDay call -> its loop index i
    iskip,          \* indexDay call -> the loop indexes whose exchange it skipped
    dupKeyFailed,   \* some write was rejected for a duplicate primary key
    skipped,        \* some exchange was skipped (no embedding, or a failed write)
    overlap,        \* an indexDay call started while another was running on its date
    \* ---- AgentState.ensureStorage (one agent) ----
    storageReady,       \* this.storageReady
    storageInitPromise, \* this.storageInitPromise: 0 (null) or the number of an init
    indexer,            \* this.indexer: 0 (null) or the init that constructed it
    searcher,           \* this.searcher: 0 (null) or the init that constructed it
    initpc,             \* init n -> "indexer", "searcher" (its awaits) or "settled"
    epc,                \* caller -> "idle", "init", "wait" (its await) or "done"
    eprom,              \* caller -> the init whose promise it awaits or awaited (0: none)
    ewaited,            \* the callers that found an init in progress and awaited it
    builtWhileReady,    \* an Indexer or Searcher was constructed with storageReady set
    indexerOk,          \* the inits whose Indexer has _initialized set (initialize() gave true)
    \* ---- MaintenanceService (one instance) ----
    mRunCount,          \* this._runCount
    mInterval,          \* this._interval: "unset", "active" or "cleared"
    mRuns,              \* run number -> [pc, todo, errors, ran, settled]: pc is "indexDay",
                        \* "sleep" (its awaits) or "done"; errors is report.errors
    mIndexed,           \* the dates of the index log
    mArchive,           \* the dates that have an archive day file
    mCutoff,            \* pruneOld's cutoff date (today minus retentionDays)
    mIndexerReady,      \* the shared Indexer's _initialized
    mPruneFails,        \* archiver.pruneOld() throws (retentionDays is no number), or an
                        \* unlinkSync in it did
    mStatsFails,        \* archiver.getStats() throws
    \* ---- the retrieval hooks of one agent ----
    tpc,                \* the await an async hook handler is at, or "idle"
    tIntent,            \* hasContinuityIntent of the before_agent_start in flight (else FALSE)
    exchangeCount,      \* state.exchangeCount
    lastRetrievalCache, \* state.lastRetrievalCache: [set, exchanges]
    ret,                \* what the last handler that finished gave the host
    \* ---- the plugin's agents ----
    agentStates,        \* the Map agentStates: key -> AgentState (exists FALSE: no entry)
    fs,                 \* data directory -> its archive, index log and database
    opAgent,            \* the agent id the last hook event or gateway call carried
    events,             \* the number of hook events and gateway calls so far
    \* ---- ContextBudget.optimize (one call) ----
    bMessages,          \* the messages argument
    bResult,            \* what the call returned ([set |-> FALSE]: not called yet)
    \* ---- Searcher (one instance, one search call) ----
    sVariant,           \* which searcher.js is deployed: "semantic" or "hybrid"
    sDb,                \* this.db is a database handle
    sInitialized,       \* this._initialized
    sEmbeddingFn,       \* this._embeddingFn: "null", "ready" or "broken" (its warmup failed)
    sFts5Checked,       \* this._fts5Checked
    sFts5Available,     \* this._fts5Available
    spc,                \* "idle", "initialize", "embed" (the call's awaits) or "settled"
    sLimit,             \* the call's limit argument
    sSemantic,          \* the rows the vec_exchanges query of the call returned
    sKeyword,           \* the rows the fts_exchanges query of the call returned
    sScores,            \* the Map _reciprocalRankFusion returned, in insertion order
    sFailed,            \* what failed during the call
    sOut,               \* the settled promise: [kind, exchanges, distances, error]
    \* ---- one agent's hook handlers, overlapping ----
    hpc,                \* handler -> "idle", "storage", "search" (its awaits) or "done"
    hkind,              \* handler -> "none", "before_agent_start" or "before_tool_call"
    hturn,              \* handler -> the turn (exchangeCount) it belongs to
    hCount,             \* state.exchangeCount
    hCache,             \* state.lastRetrievalCache: [set, exchanges]
    hCacheBy,           \* the handler whose search result hCache is (0: none)
    hSearcher,          \* state.searcher after ensureStorage: "unset", "ok" or "null"
    \* ---- TopicTracker (one instance) ----
    topics,             \* this._topics: word -> [tracked, mentions, lastSeen]
    currentExchange,    \* this._currentExchange
    lastOccur,          \* how often the word Subject occurred in the text of the latest track call
    streak,             \* the latest track calls in a row whose text held Subject twice or more
    streakKept,         \* the same, the run broken also by a gap wider than the window or an unread token
    \* ---- agent_end, the archive and the index log of one agent ----
    cToday,             \* the current UTC date
    cFile,              \* date -> the messages (by number) of its archive day file
    cLog,               \* the dates of index-log.json
    cCovered,           \* the messages some finished indexDay call had in its snapshot
    cEnd,               \* the agent_end in flight: [pc, date, snap], pc "idle" or "indexDay"
    cRun,               \* the execute() run in flight: [pc, todo, snap], pc "idle", "indexDay" or "sleep"
    \* ---- ContinuityAnchors (one instance) ----
    anchors,            \* this._anchors
    aNow,               \* Date.now()
    aOp,                \* the last operation on the instance: "none", "detect", "reset" or "tick"
    aLast,              \* the session's messages as of the last detect call
    aExpired,           \* the anchors the age filter of prune has dropped: [type, messageIndex]
    \* ---- the continuity-maintenance service and the agents it serves ----
    vKnown,             \* the keys of agentStates, in insertion order
    vReady,             \* the agents whose storage is ready, with an Indexer
    vStart,             \* the service's start(): "unstarted", "loop" or "started"
    vPos,               \* the entry of agentStates the loop of start() visits next
    vMaint,             \* the keys of maintenanceInstances, each with its interval timer
    vCycled,            \* the agents whose interval timer has fired
    \* ---- Compactor (one compact call) ----
    kMessages,          \* the messages handed to compact
    kResult,            \* what compact returned, with the result of the strategy it tried first
    \* ---- Searcher._ftsSearch of one hybrid search ----
    qQuery,             \* the query argument of search, a sequence of characters
    qRan                \* whether _ftsSearch ran its MATCH query on fts_exchanges

archVars == <<files, now, calls, stream, filesBefore, inputRepeats, wrote>>
idxVars == <<db, indexLog, ipc, idate, imsgs, ipairs, iidx, iskip, dupKeyFailed, skipped,
            overlap>>
stoVars == <<storageReady, storageInitPromise, indexer, searcher, initpc, epc, eprom,
             ewaited, builtWhileReady, indexerOk>>
mntVars == <<mRunCount, mInterval, mRuns, mIndexed, mArchive, mCutoff, mIndexerReady,
            mPruneFails, mStatsFails>>
turnVars == <<tpc, tIntent, exchangeCount, lastRetrievalCache, ret>>
agVars == <<agentStates, fs, opAgent, events>>
budVars == <<bMessages, bResult>>
srchVars == <<sVariant, sDb, sInitialized, sEmbeddingFn, sFts5Checked, sFts5Available, spc,
              sLimit, sSemantic, sKeyword, sScores, sFailed, sOut>>
hookVars == <<hpc, hkind, hturn, hCount, hCache, hCacheBy, hSearcher>>
topicVars == <<topics, currentExchange, lastOccur, streak, streakKept>>
covVars == <<cToday, cFile, cLog, cCovered, cEnd, cRun>>
ancVars == <<anchors, aNow, aOp, aLast, aExpired>>
svcVars == <<vKnown, vReady, vStart, vPos, vMaint, vCycled>>
cmpVars == <<kMessages, kResult>>
ftsVars == <<qQuery, qRan>>
vars == <<archVars, idxVars, stoVars, mntVars, turnVars, agVars, budVars, srchVars, hookVars, topicVars, covVars, ancVars, svcVars, cmpVars, ftsVars>>

\* What the operations of one component leave alone: the other components.
otherThanArch == <<idxVars, stoVars, mntVars, turnVars, agVars, budVars, srchVars, hookVars, topicVars, covVars, ancVars, svcVars, cmpVars, ftsVars>>
otherThanIdx == <<archVars, stoVars, mntVars, turnVars, agVars, budVars, srchVars, hookVars, topicVars, covVars, ancVars, svcVars, cmpVars, ftsVars>>
otherThanSto == <<archVars, idxVars, mntVars, turnVars, agVars, budVars, srchVars, hookVars, topicVars, covVars, ancVars, svcVars, cmpVars, ftsVars>>
otherThanMnt == <<archVars, idxVars, stoVars, turnVars, agVars, budVars, srchVars, hookVars, topicVars, covVars, ancVars, svcVars, cmpVars, ftsVars>>
otherThanTurn == <<archVars, idxVars, mntVars, initpc, epc, eprom, ewaited, builtWhileReady,
                   indexerOk, storageInitPromise, agVars, budVars, srchVars, hookVars, topicVars, covVars, ancVars, svcVars, cmpVars, ftsVars>>
otherThanAgents == <<files, calls, stream, filesBefore, inputRepeats, wrote, idxVars, stoVars, mntVars,
                     turnVars, budVars, srchVars, hookVars, topicVars, covVars, ancVars, svcVars, cmpVars, ftsVars>>
otherThanBud == <<archVars, idxVars, stoVars, mntVars, turnVars, agVars, srchVars, hookVars, topicVars, covVars, ancVars, svcVars, cmpVars, ftsVars>>
otherThanSrch == <<archVars, idxVars, stoVars, mntVars, turnVars, agVars, budVars, hookVars, topicVars, covVars, ancVars, svcVars, cmpVars, ftsVars>>
otherThanFts == <<archVars, idxVars, stoVars, mntVars, turnVars, agVars, budVars, srchVars, hookVars, topicVars, covVars, ancVars, svcVars, cmpVars>>
otherThanCmp == <<archVars, idxVars, stoVars, mntVars, turnVars, agVars, budVars, srchVars, hookVars, topicVars, covVars, ancVars, svcVars, ftsVars>>
otherThanSvc == <<archVars, idxVars, stoVars, mntVars, turnVars, agVars, budVars, srchVars, hookVars, topicVars, covVars, ancVars, cmpVars, ftsVars>>
otherThanAnc == <<archVars, idxVars, stoVars, mntVars, turnVars, agVars, budVars, srchVars, hookVars, topicVars, covVars, svcVars, cmpVars, ftsVars>>
otherThanCov == <<archVars, idxVars, stoVars, mntVars, turnVars, agVars, budVars, srchVars, hookVars, topicVars, ancVars, svcVars, cmpVars, ftsVars>>
otherThanTopics == <<archVars, idxVars, stoVars, mntVars, turnVars, agVars, budVars, srchVars, hookVars, covVars, ancVars, svcVars, cmpVars, ftsVars>>
otherThanHooks == <<archVars, idxVars, stoVars, mntVars, turnVars, agVars, budVars, srchVars, topicVars, covVars, ancVars, svcVars, cmpVars, ftsVars>>

(***************************************************************************)
(* Values every specification leaves the other components' variables at.   *)
(***************************************************************************)
IdxCalls == {1, 2}
NoMsg == [sender |-> "none", text |-> ""]
EmptyDb == [exchanges |-> <<>>, vec |-> {}, fts |-> {}]

ArchIdle ==
    /\ files = [d \in 0..(MaxClock \div DayLen) |-> <<>>]
    /\ now = 0
    /\ calls = 0
    /\ stream = <<>>
    /\ filesBefore = [d \in 0..(MaxClock \div DayLen) |-> <<>>]
    /\ inputRepeats = FALSE
    /\ wrote = FALSE

IdxIdle ==
    /\ db = EmptyDb
    /\ indexLog = {}
    /\ ipc = [c \in IdxCalls |-> "idle"]
    /\ idate = [c \in IdxCalls |-> 0]
    /\ imsgs = [c \in IdxCalls |-> <<>>]
    /\ ipairs = [c \in IdxCalls |-> <<>>]
    /\ iidx = [c \in IdxCalls |-> 0]
    /\ iskip = [c \in IdxCalls |-> {}]
    /\ dupKeyFailed = FALSE
    /\ skipped = FALSE
    /\ overlap = FALSE

Callers == 1..NumCallers

\* AgentState.constructor: storage is not set up.
StoIdle ==
    /\ storageReady = FALSE
    /\ storageInitPromise = 0
    /\ indexer = 0
    /\ searcher = 0
    /\ initpc = <<>>
    /\ epc = [c \in Callers |-> "idle"]
    /\ eprom = [c \in Callers |-> 0]
    /\ ewaited = {}
    /\ indexerOk = {}
    /\ builtWhileReady = FALSE

\* MaintenanceService.constructor, with no archive and no index log.
MntIdle ==
    /\ mRunCount = 0
    /\ mInterval = "unset"
    /\ mRuns = <<>>
    /\ mIndexed = {}
    /\ mArchive = {}
    /\ mCutoff = 0
    /\ mIndexerReady = FALSE
    /\ mPruneFails = FALSE
    /\ mStatsFails = FALSE

(***************************************************************************)
(* Agent ids, keys and data directories                                     *)
(***************************************************************************)
\* The agent ids of the model; "" stands for a missing id.
AgentIds == {"", "main", "a", ".."}

\* getAgentState: `agentId || 'main'`.
KeyOf(agentId) == IF agentId = "" THEN "main" ELSE agentId

AgentKeys == {KeyOf(agentId) : agentId \in AgentIds}

\* baseDataDir, as path segments.
BaseDataDir == <<"data">>

RECURSIVE Resolve(_, _)
\* path.join's normalisation: ".." removes the segment before it.
Resolve(done, segments) ==
    IF segments = <<>> THEN done
    ELSE IF Head(segments) = ".." /\ done # <<>>
         THEN Resolve(SubSeq(done, 1, Len(done) - 1), Tail(segments))
         ELSE Resolve(Append(done, Head(segments)), Tail(segments))

PathJoin(segments) == Resolve(<<>>, segments)

\* AgentState.constructor: this.dataDir.
DataDirOf(key) ==
    IF key = "" \/ key = "main" THEN BaseDataDir
    ELSE PathJoin(BaseDataDir \o <<"agents", key>>)

DataDirs == {DataDirOf(key) : key \in AgentKeys}

NoAgentState ==
    [exists |-> FALSE, exchangeCount |-> 0, sessionStart |-> 0, topics |-> FALSE,
     anchors |-> FALSE, lastRetrievalCache |-> FALSE, storageReady |-> FALSE,
     handles |-> FALSE]

\* A data directory with no day file, no index log entry and no database.
EmptyDir == [archive |-> {}, indexLog |-> {}, database |-> FALSE]

\* The plugin after register(): no agent state, empty data directories.
AgentsIdle ==
    /\ agentStates = [key \in AgentKeys |-> NoAgentState]
    /\ fs = [dir \in DataDirs |-> EmptyDir]
    /\ opAgent = ""
    /\ events = 0

NoCache == [set |-> FALSE, exchanges |-> <<>>]
NoReturn == [handler |-> "none", kind |-> "none", prependContext |-> <<>>, shown |-> <<>>]

\* A fresh AgentState on which no hook has run.
TurnIdle ==
    /\ tpc = "idle"
    /\ tIntent = FALSE
    /\ exchangeCount = 0
    /\ lastRetrievalCache = NoCache
    /\ ret = NoReturn

Handlers == 1..MaxHandlers

\* A fresh AgentState on which no handler has started.
HooksIdle ==
    /\ hpc = [h \in Handlers |-> "idle"]
    /\ hkind = [h \in Handlers |-> "none"]
    /\ hturn = [h \in Handlers |-> 0]
    /\ hCount = 0
    /\ hCache = NoCache
    /\ hCacheBy = 0
    /\ hSearcher = "unset"

\* The words of the tracked texts: Subject is a word of minWordLength letters
\* or more that is no stop word; "about" is a stop word.
Subject == "identity"
Words == {Subject, "about"}
NoTopic == [tracked |-> FALSE, mentions |-> 0, lastSeen |-> 0]

\* A fresh TopicTracker.
TopicsIdle ==
    /\ topics = [w \in Words |-> NoTopic]
    /\ currentExchange = 0
    /\ lastOccur = 0
    /\ streak = 0
    /\ streakKept = 0

\* Nothing detected yet.
AncIdle ==
    /\ anchors = <<>>
    /\ aNow = 0
    /\ aOp = "none"
    /\ aLast = <<>>
    /\ aExpired = {}

\* No agent seen, the service not started.
SvcIdle ==
    /\ vKnown = <<>>
    /\ vReady = {}
    /\ vStart = "unstarted"
    /\ vPos = 0
    /\ vMaint = {}
    /\ vCycled = {}

\* No compact call has been made.
CmpIdle ==
    /\ kMessages = <<>>
    /\ kResult = [set |-> FALSE]

FtsIdle ==
    /\ qQuery = <<>>
    /\ qRan = FALSE

CoverMsgs == 1..MaxCoverMsgs
NoIndexDay == [pc |-> "idle", date |-> 0, snap |-> {}]
NoRun == [pc |-> "idle", todo |-> <<>>, snap |-> {}]

\* An empty archive, nothing indexed, no handler or run in flight.
CovIdle ==
    /\ cToday = 0
    /\ cFile = [d \in Dates |-> {}]
    /\ cLog = {}
    /\ cCovered = {}
    /\ cEnd = NoIndexDay
    /\ cRun = NoRun

NoResult == [set |-> FALSE]

\* No ContextBudget.optimize call has been made.
BudIdle ==
    /\ bMessages = <<>>
    /\ bResult = NoResult

NoOut == [kind |-> "none", exchanges |-> <<>>, distances |-> <<>>, error |-> "none"]

\* The two searcher.js files.
SearcherVariants == {"semantic", "hybrid"}

\* No search call has been made on a Searcher.
SearcherUnused ==
    /\ sDb = FALSE
    /\ sInitialized = FALSE
    /\ sEmbeddingFn = "null"
    /\ sFts5Checked = FALSE
    /\ sFts5Available = FALSE
    /\ spc = "idle"
    /\ sLimit = 0
    /\ sSemantic = <<>>
    /\ sKeyword = <<>>
    /\ sScores = <<>>
    /\ sFailed = {}
    /\ sOut = NoOut

\* No Searcher is looked at.
SrchIdle ==
    /\ sVariant = "none"
    /\ SearcherUnused

(***************************************************************************)
(* Archiver                                                                 *)
(***************************************************************************)
Texts == {"p", "q"}
\* The instants the host stamps messages with: two of one day, one of the next.
HostStamps == {0, 1, DayLen}
\* A message's timestamp field: absent or an ISO string. The number 0 is read
\* as an absent one, and any other number is formatted as its ISO string.
TsInputs == {[kind |-> "none", t |-> 0]} \cup [kind : {"iso"}, t : HostStamps]
\* The messages a caller passes. archive() drops a message that is neither
\* the user's nor the assistant's before it reads anything else of it, so one
\* such message stands for all.
MsgInputs == [role : {"user", "assistant"}, timestamp : TsInputs, content : Texts]
             \cup {[role |-> "system", timestamp |-> [kind |-> "none", t |-> 0], content |-> "p"]}

\* _normalizeTimestamp: a falsy timestamp (absent, or the number 0) reads the
\* clock; a string is kept; a number is formatted as its ISO string.
NormalizeTimestamp(ts, clock) ==
    IF ts.kind = "none" \/ (ts.kind = "num" /\ ts.t = 0) THEN clock ELSE ts.t

\* substring(0, 10) of an ISO timestamp: its calendar day.
DateOf(t) == t \div DayLen

\* The dedup key `${timestamp}_${sender}`.
DedupKey(m) == <<m.timestamp, m.sender>>

RECURSIVE Normalize(_, _, _)
\* The filter/map of archive(): user and assistant messages only, each with
\* its timestamp normalised. ticks[i] is how far the clock has moved on when
\* message i is mapped.
Normalize(messages, clock, ticks) ==
    IF messages = <<>> THEN <<>>
    ELSE LET m == Head(messages)
             c == clock + Head(ticks)
             rest == Normalize(Tail(messages), c, Tail(ticks))
         IN IF m.role \in {"user", "assistant"}
            THEN <<[timestamp |-> NormalizeTimestamp(m.timestamp, c),
                    sender |-> IF m.role = "user" THEN "user" ELSE "agent",
                    text |-> m.content]>> \o rest
            ELSE rest

RECURSIVE SumSeq(_)
SumSeq(s) == IF s = <<>> THEN 0 ELSE Head(s) + SumSeq(Tail(s))

RECURSIVE FilterDate(_, _)
\* byDate.get(date): the normalised messages of one day, in input order.
FilterDate(msgs, d) ==
    IF msgs = <<>> THEN <<>>
    ELSE IF DateOf(Head(msgs).timestamp) = d
         THEN <<Head(msgs)>> \o FilterDate(Tail(msgs), d)
         ELSE FilterDate(Tail(msgs), d)

KeysOf(msgs) == {DedupKey(msgs[i]) : i \in 1..Len(msgs)}

\* A variant of the append loop that forgets dedupKeys.add(key).
RECURSIVE AppendNewNoAdd(_, _, _)
AppendNewNoAdd(existing, dayMessages, keys) ==
    IF dayMessages = <<>> THEN existing
    ELSE LET m == Head(dayMessages)
         IN IF DedupKey(m) \in keys
            THEN AppendNewNoAdd(existing, Tail(dayMessages), keys)
            ELSE AppendNewNoAdd(Append(existing, m), Tail(dayMessages), keys)

RECURSIVE AppendNew(_, _, _)
\* The append loop: push each message whose key is not in dedupKeys, and add
\* its key.
AppendNew(existing, dayMessages, keys) ==
    IF dayMessages = <<>> THEN existing
    ELSE LET m == Head(dayMessages)
         IN IF DedupKey(m) \in keys
            THEN AppendNew(existing, Tail(dayMessages), keys)
            ELSE AppendNew(Append(existing, m), Tail(dayMessages),
                           keys \cup {DedupKey(m)})

RECURSIVE InsertSorted(_, _)
InsertSorted(sorted, m) ==
    IF sorted = <<>> THEN <<m>>
    ELSE IF Head(sorted).timestamp <= m.timestamp
         THEN <<Head(sorted)>> \o InsertSorted(Tail(sorted), m)
         ELSE <<m>> \o sorted

RECURSIVE SortByTimestamp(_)
\* Array.prototype.sort by new Date(a.timestamp) - new Date(b.timestamp):
\* stable, ascending.
SortByTimestamp(msgs) ==
    IF msgs = <<>> THEN <<>>
    ELSE InsertSorted(SortByTimestamp(SubSeq(msgs, 1, Len(msgs) - 1)),
                      msgs[Len(msgs)])

\* One date of archive(): load, dedup, append, and when something was added,
\* sort and write.
ArchiveDay(existing, dayMessages) ==
    LET appended == AppendNew(existing, dayMessages, KeysOf(existing))
    IN IF Len(appended) > Len(existing) THEN SortByTimestamp(appended)
       ELSE existing

\* Archiver.archive: the day files after the call.
ArchiveFiles(dayFiles, messages, clock, ticks) ==
    LET normalized == Normalize(messages, clock, ticks)
    IN [d \in DOMAIN dayFiles |-> ArchiveDay(dayFiles[d], FilterDate(normalized, d))]

\* Message m makes archive() read the clock.
ReadsClock(m) ==
    /\ m.role \in {"user", "assistant"}
    /\ (m.timestamp.kind = "none" \/ (m.timestamp.kind = "num" /\ m.timestamp.t = 0))

\* How far the clock moves on before each read of it within one call.
TickSeqs(messages) ==
    {ticks \in [1..Len(messages) -> {0, 1}] :
        \A i \in 1..Len(messages) : ticks[i] = 1 => ReadsClock(messages[i])}

\* The lists a caller passes: agent_end passes the turn's last user message
\* and last assistant message, so at most two.
MsgLists == {<<>>} \cup {<<m>> : m \in MsgInputs}
            \cup {<<m1, m2>> : m1 \in MsgInputs, m2 \in MsgInputs}

HasRepeatedKey(msgs) ==
    \E i, j \in 1..Len(msgs) : i < j /\ DedupKey(msgs[i]) = DedupKey(msgs[j])

InitArchive ==
    /\ files = [d \in Dates |-> <<>>]
    /\ now \in {0, 1}
    /\ calls = 0
    /\ stream = <<>>
    /\ filesBefore = [d \in Dates |-> <<>>]
    /\ inputRepeats = FALSE
    /\ wrote = FALSE
    /\ IdxIdle
    /\ FtsIdle
    /\ CmpIdle
    /\ SvcIdle
    /\ AncIdle
    /\ CovIdle
    /\ TopicsIdle
    /\ HooksIdle
    /\ StoIdle
    /\ MntIdle
    /\ TurnIdle
    /\ AgentsIdle
    /\ BudIdle
    /\ SrchIdle

\* Archiver.archive(messages).
Archive(messages) ==
    /\ calls < MaxCalls
    /\ \E ticks \in TickSeqs(messages) :
          /\ now + SumSeq(ticks) <= MaxClock
          /\ files' = ArchiveFiles(files, messages, now, ticks)
          /\ now' = now + SumSeq(ticks)
          /\ inputRepeats' = HasRepeatedKey(Normalize(messages, now, ticks))
    /\ wrote' = (\E d \in Dates : files[d] # <<>> /\ files'[d] # files[d])
    /\ calls' = calls + 1
    /\ UNCHANGED <<stream, otherThanArch>>

\* A caller hands `messages` to Archiver.archive.
ArchiveCall(messages) ==
    /\ Archive(messages)
    /\ UNCHANGED filesBefore

\* The stream is archived once more; filesBefore keeps what the archive held.
ArchiveStream ==
    /\ Archive(stream)
    /\ filesBefore' = files

\* Time passes between two calls.
ClockTick ==
    /\ now < MaxClock
    /\ now' = now + 1
    /\ UNCHANGED <<files, calls, stream, filesBefore, inputRepeats, wrote, otherThanArch>>

NextArchive ==
    \/ \E messages \in MsgLists : ArchiveCall(messages)
    \/ ClockTick

SpecArchive == InitArchive /\ [][NextArchive]_vars

\* The idempotence runs: one stream M, archived again and again.
InitStream ==
    /\ files = [d \in Dates |-> <<>>]
    /\ now \in {0, 1}
    /\ calls = 0
    /\ stream \in MsgLists
    /\ filesBefore = [d \in Dates |-> <<>>]
    /\ inputRepeats = FALSE
    /\ wrote = FALSE
    /\ IdxIdle
    /\ FtsIdle
    /\ CmpIdle
    /\ SvcIdle
    /\ AncIdle
    /\ CovIdle
    /\ TopicsIdle
    /\ HooksIdle
    /\ StoIdle
    /\ MntIdle
    /\ TurnIdle
    /\ AgentsIdle
    /\ BudIdle
    /\ SrchIdle

NextStream ==
    \/ ArchiveStream
    \/ ClockTick

SpecStream == InitStream /\ [][NextStream]_vars

(***************************************************************************)
(* Indexer                                                                  *)
(***************************************************************************)
Senders == {"user", "agent"}
\* A day's messages as indexDay reads them (sender and text).
DayTexts == {"p"}
DayMsgs == [sender : Senders, text : DayTexts]
DayLists == UNION {[1..n -> DayMsgs] : n \in 1..MaxDayMsgs}

RECURSIVE PairFrom(_, _)
\* The loop of _pairExchanges with currentExchange = cur: a user message
\* closes an open exchange that already has a user and opens a new one; an
\* agent message completes the current exchange; what remains is pushed.
PairFrom(messages, cur) ==
    IF messages = <<>>
    THEN IF cur.user # NoMsg \/ cur.agent # NoMsg THEN <<cur>> ELSE <<>>
    ELSE LET m == Head(messages)
         IN IF m.sender = "user"
            THEN IF cur.user # NoMsg
                 THEN <<cur>> \o PairFrom(Tail(messages), [user |-> m, agent |-> NoMsg])
                 ELSE PairFrom(Tail(messages), [cur EXCEPT !.user = m])
            ELSE IF m.sender = "agent"
                 THEN <<[cur EXCEPT !.agent = m]>>
                      \o PairFrom(Tail(messages), [user |-> NoMsg, agent |-> NoMsg])
                 ELSE PairFrom(Tail(messages), cur)

\* A variant that pairs nothing: every message is an exchange of its own.
PairExchangesApart(messages) ==
    [i \in 1..Len(messages) |->
        IF messages[i].sender = "user" THEN [user |-> messages[i], agent |-> NoMsg]
        ELSE [user |-> NoMsg, agent |-> messages[i]]]

\* Indexer._pairExchanges
PairExchanges(messages) == PairFrom(messages, [user |-> NoMsg, agent |-> NoMsg])

\* A variant of the id that leaves the index out: `exchange_${date}`.
ExchangeIdNoIndex(date, i) == <<date, 0>>

\* The id `exchange_${date}_${i}` (i counted from 0).
ExchangeId(date, i) == <<date, i>>

\* The row insertExchange.run writes: exchange.user?.text || '' and
\* exchange.agent?.text || ''.
ExchangeRow(exchange) == [user_text |-> exchange.user.text, agent_text |-> exchange.agent.text]

\* INSERT OR REPLACE INTO exchanges: the row of this id, whether or not the
\* id had one.
InsertExchange(d, id, row) ==
    [d EXCEPT !.exchanges =
        [k \in DOMAIN d.exchanges \cup {id} |-> IF k = id THEN row ELSE d.exchanges[k]]]

\* DELETE FROM vec_exchanges WHERE id = ?
DeleteVec(d, id) == [d EXCEPT !.vec = d.vec \ {id}]

\* INSERT INTO vec_exchanges: rejected when the primary key is already there.
InsertVec(d, id) ==
    IF id \in d.vec THEN [ok |-> FALSE, db |-> d]
    ELSE [ok |-> TRUE, db |-> [d EXCEPT !.vec = d.vec \cup {id}]]

\* A variant of the transaction that leaves out deleteVec.run(id).
TransactionNoDelete(d, id, row) ==
    LET r == InsertVec(InsertExchange(d, id, row), id)
    IN IF r.ok THEN r ELSE [ok |-> FALSE, db |-> d]

\* The transaction of indexDay: insertExchange, deleteVec, insertVec, all
\* or nothing (a throw rolls the three back).
Transaction(d, id, row) ==
    LET r == InsertVec(DeleteVec(InsertExchange(d, id, row), id), id)
    IN IF r.ok THEN r ELSE [ok |-> FALSE, db |-> d]

\* Indexer.markIndexed
MarkIndexed(log, date) == log \cup {date}

InitIndex ==
    /\ ArchIdle
    /\ IdxIdle
    /\ FtsIdle
    /\ CmpIdle
    /\ SvcIdle
    /\ AncIdle
    /\ CovIdle
    /\ TopicsIdle
    /\ HooksIdle
    /\ StoIdle
    /\ MntIdle
    /\ TurnIdle
    /\ AgentsIdle
    /\ BudIdle
    /\ SrchIdle

\* indexDay(date, messages) is called (the Indexer is initialised and the
\* list is not empty): it pairs the messages and awaits the first _embed.
IndexDayStart(c, date, messages) ==
    /\ ipc[c] = "idle"
    /\ ipc' = [ipc EXCEPT ![c] = "embed"]
    /\ idate' = [idate EXCEPT ![c] = date]
    /\ imsgs' = [imsgs EXCEPT ![c] = messages]
    /\ ipairs' = [ipairs EXCEPT ![c] = PairExchanges(messages)]
    /\ iidx' = [iidx EXCEPT ![c] = 0]
    /\ iskip' = [iskip EXCEPT ![c] = {}]
    /\ overlap' = (overlap \/ \E o \in IdxCalls : ipc[o] = "embed" /\ idate[o] = date)
    /\ UNCHANGED <<db, indexLog, dupKeyFailed, skipped, otherThanIdx>>

\* A loop without the try block: a failing exchange ends the call.
AfterExchangeThrow(last, failed) == IF last \/ failed THEN "done" ELSE "embed"

\* Where the call is after exchange i: the catch block of the loop lets it
\* go on to the next exchange, and after the last one the call returns.
AfterExchange(last, failed) == IF last THEN "done" ELSE "embed"

\* The awaited _embed of exchange i settles and the call runs on to its next
\* await: with no embedding the exchange is skipped; otherwise the
\* transaction runs, and a throw in it is caught and the exchange skipped.
\* After the last exchange the date is marked indexed and the call returns.
IndexDayStep(c, embedded, writeOk) ==
    /\ ipc[c] = "embed"
    /\ LET i == iidx[c]
           id == ExchangeId(idate[c], i)
           tx == Transaction(db, id, ExchangeRow(ipairs[c][i + 1]))
           last == (i + 1 = Len(ipairs[c]))
           failed == ~(embedded /\ writeOk /\ tx.ok)
       IN /\ IF embedded /\ writeOk
             THEN /\ db' = tx.db
                  /\ dupKeyFailed' = (dupKeyFailed \/ ~tx.ok)
                  /\ skipped' = (skipped \/ ~tx.ok)
             ELSE /\ skipped' = TRUE
                  /\ UNCHANGED <<db, dupKeyFailed>>
          /\ iskip' = [iskip EXCEPT ![c] = IF failed THEN @ \cup {i} ELSE @]
          /\ iidx' = [iidx EXCEPT ![c] = i + 1]
          /\ ipc' = [ipc EXCEPT ![c] = AfterExchange(last, failed)]
          /\ indexLog' = IF AfterExchange(last, failed) = "done" /\ last
                         THEN MarkIndexed(indexLog, idate[c]) ELSE indexLog
    /\ UNCHANGED <<idate, imsgs, ipairs, overlap, otherThanIdx>>

NextIndex ==
    \/ \E c \in IdxCalls, date \in Dates, messages \in DayLists :
          IndexDayStart(c, date, messages)
    \/ \E c \in IdxCalls, embedded \in BOOLEAN, writeOk \in BOOLEAN :
          IndexDayStep(c, embedded, writeOk)

SpecIndex == InitIndex /\ [][NextIndex]_vars

RECURSIVE IsSubSeq(_, _)
\* What archive() does to a day file that is read back intact: messages are
\* pushed and the list is sorted by a stable sort on valid timestamps, so
\* the messages it held keep their order and `older` is a subsequence of
\* the file after any number of calls.
IsSubSeq(older, newer) ==
    IF older = <<>> THEN TRUE
    ELSE IF newer = <<>> THEN FALSE
    ELSE IF Head(older) = Head(newer) THEN IsSubSeq(Tail(older), Tail(newer))
    ELSE IsSubSeq(older, Tail(newer))

\* The ids of the exchanges rows of one date.
RowsOfDate(date) == {id \in DOMAIN db.exchanges : id[1] = date}

\* Pass c has returned, none of its exchanges was skipped, and every other
\* pass made on its date read the day file when it was what c read or a
\* smaller, earlier state of it.
LatestCleanPass(c) ==
    /\ ipc[c] = "done"
    /\ iskip[c] = {}
    /\ \A o \in IdxCalls \ {c} :
          (ipc[o] # "idle" /\ idate[o] = idate[c]) => IsSubSeq(imsgs[o], imsgs[c])

\* C37: for a date whose day file only grows between index passes, after an
\* indexDay pass in which every exchange was embedded and written, the ids
\* of the exchanges rows of that date are exactly <<date, 0>> ..
\* <<date, n - 1>> for the n exchanges the pass paired: no row of an earlier
\* pass is left with an index >= n.
C37_RowsAreCurrentPairing ==
    \A c \in IdxCalls :
        LatestCleanPass(c) =>
            RowsOfDate(idate[c]) = {<<idate[c], i>> : i \in 0..(Len(ipairs[c]) - 1)}

\* A pass over a grown day file has returned after an earlier pass on the
\* same date that paired fewer exchanges.
C37_Witness ==
    \E c \in IdxCalls, o \in IdxCalls :
        /\ o # c
        /\ LatestCleanPass(c)
        /\ ipc[o] = "done"
        /\ idate[o] = idate[c]
        /\ Len(imsgs[o]) < Len(imsgs[c])
        /\ Len(ipairs[o]) < Len(ipairs[c])
        /\ Len(ipairs[c]) >= 2

(***************************************************************************)
(* AgentState.ensureStorage                                                 *)
(***************************************************************************)
\* A variant of the entry that does not look at storageInitPromise.
EnsureStorageEntryNoPromise(ready, promise) ==
    IF ready THEN "return" ELSE "init"

\* The two tests ensureStorage starts with: return when storage is ready,
\* await the promise of an init in progress, else start the init.
EnsureStorageEntry(ready, promise) ==
    IF ready THEN "return"
    ELSE IF promise # 0 THEN "wait"
    ELSE "init"

InProgress == {n \in 1..Len(initpc) : initpc[n] # "settled"}

InitStorage ==
    /\ ArchIdle
    /\ IdxIdle
    /\ FtsIdle
    /\ CmpIdle
    /\ SvcIdle
    /\ AncIdle
    /\ CovIdle
    /\ TopicsIdle
    /\ HooksIdle
    /\ StoIdle
    /\ MntIdle
    /\ TurnIdle
    /\ AgentsIdle
    /\ BudIdle
    /\ SrchIdle

\* A caller enters ensureStorage and runs to its return or its first await.
\* Starting the init constructs the Indexer and calls its initialize().
EnsureStorageCall(c) ==
    /\ epc[c] = "idle"
    /\ LET entry == EnsureStorageEntry(storageReady, storageInitPromise)
           n == Len(initpc) + 1
       IN \/ /\ entry = "return"
             /\ epc' = [epc EXCEPT ![c] = "done"]
             /\ UNCHANGED <<storageInitPromise, indexer, initpc, eprom, ewaited,
                            builtWhileReady>>
          \/ /\ entry = "wait"
             /\ epc' = [epc EXCEPT ![c] = "wait"]
             /\ eprom' = [eprom EXCEPT ![c] = storageInitPromise]
             /\ ewaited' = ewaited \cup {c}
             /\ UNCHANGED <<storageInitPromise, indexer, initpc, builtWhileReady>>
          \/ /\ entry = "init"
             /\ initpc' = Append(initpc, "indexer")
             /\ indexer' = n
             /\ storageInitPromise' = n
             /\ epc' = [epc EXCEPT ![c] = "init"]
             /\ eprom' = [eprom EXCEPT ![c] = n]
             /\ builtWhileReady' = (builtWhileReady \/ storageReady)
             /\ UNCHANGED ewaited
    /\ UNCHANGED <<storageReady, searcher, indexerOk, otherThanSto>>

\* Whether the init goes on after `await this.indexer.initialize()`: the
\* value it resolved to is not looked at.
InitGoesOn(handle, ok) == handle # 0

\* indexer.initialize() settles (it resolves true or false, it never
\* rejects): the init constructs the Searcher on this.indexer.db and calls
\* its initialize(). With this.indexer null, reading .db throws and the catch
\* block ends the init.
IndexerInitialized(n, ok) ==
    /\ n \in 1..Len(initpc)
    /\ initpc[n] = "indexer"
    /\ indexerOk' = IF ok THEN indexerOk \cup {n} ELSE indexerOk
    /\ IF InitGoesOn(indexer, ok)
       THEN /\ searcher' = n
            /\ initpc' = [initpc EXCEPT ![n] = "searcher"]
            /\ builtWhileReady' = (builtWhileReady \/ storageReady)
            /\ UNCHANGED indexer
       ELSE /\ indexer' = 0
            /\ searcher' = 0
            /\ initpc' = [initpc EXCEPT ![n] = "settled"]
            /\ UNCHANGED builtWhileReady
    /\ UNCHANGED <<storageReady, storageInitPromise, epc, eprom, ewaited, otherThanSto>>

\* searcher.initialize() settles (it never rejects): storageReady is set and
\* the host's logger is called; if that throws, the catch block drops both
\* handles. The init's promise is settled either way.
SearcherInitialized(n, loggerThrows) ==
    /\ n \in 1..Len(initpc)
    /\ initpc[n] = "searcher"
    /\ storageReady' = TRUE
    /\ initpc' = [initpc EXCEPT ![n] = "settled"]
    /\ IF loggerThrows
       THEN indexer' = 0 /\ searcher' = 0
       ELSE UNCHANGED <<indexer, searcher>>
    /\ UNCHANGED <<storageInitPromise, epc, eprom, ewaited, builtWhileReady, indexerOk,
                   otherThanSto>>

\* A caller's await ends once the promise is settled: the caller that
\* started the init clears storageInitPromise; both return.
EnsureStorageResume(c) ==
    /\ epc[c] \in {"init", "wait"}
    /\ initpc[eprom[c]] = "settled"
    /\ storageInitPromise' = IF epc[c] = "init" THEN 0 ELSE storageInitPromise
    /\ epc' = [epc EXCEPT ![c] = "done"]
    /\ UNCHANGED <<storageReady, indexer, searcher, initpc, eprom, ewaited, builtWhileReady,
                   indexerOk, otherThanSto>>

NextStorage ==
    \/ \E c \in Callers : EnsureStorageCall(c)
    \/ \E n \in 1..NumCallers, ok \in BOOLEAN : IndexerInitialized(n, ok)
    \/ \E n \in 1..NumCallers, loggerThrows \in BOOLEAN : SearcherInitialized(n, loggerThrows)
    \/ \E c \in Callers : EnsureStorageResume(c)

SpecStorage == InitStorage /\ [][NextStorage]_vars

(***************************************************************************)
(* MaintenanceService                                                       *)
(***************************************************************************)
RECURSIVE SortedDates(_)
\* Archiver.getDates: the dates in ascending order.
SortedDates(S) ==
    IF S = {} THEN <<>>
    ELSE LET d == CHOOSE x \in S : \A y \in S : x <= y
         IN <<d>> \o SortedDates(S \ {d})

\* Archiver.getUnindexedDates over Indexer.getIndexedDates.
GetUnindexedDates(archive, indexed) == SortedDates(archive \ indexed)

\* A variant of pruneOld that also removes the file dated at the cutoff.
PruneOldThrough(archive, cutoff) == {d \in archive : ~(d <= cutoff)}

\* Archiver.pruneOld: the day files dated before the cutoff are removed.
PruneOld(archive, cutoff) == {d \in archive : ~(d < cutoff)}

RECURSIVE NextToIndex(_, _)
\* The loop of execute() passes over the dates whose getConversation()
\* returns null and stops at the first one it calls indexDay on.
NextToIndex(todo, archive) ==
    IF todo = <<>> THEN <<>>
    ELSE IF Head(todo) \in archive THEN todo
    ELSE NextToIndex(Tail(todo), archive)

\* The steps of execute() after the batch index.
LaterSteps == {"prune", "stats", "log"}

\* A run at an await of its step 1.
RunAt(pc, todo) ==
    [pc |-> pc, todo |-> todo, errors |-> <<>>, ran |-> {}, settled |-> "pending"]

\* A variant without the try blocks of steps 2 and 3: what a step throws
\* rejects execute().
RunEndNoCatch(errors, pruneFails, statsFails) ==
    IF pruneFails
    THEN [pc |-> "done", todo |-> <<>>, errors |-> errors, ran |-> {"prune"},
          settled |-> "rejected"]
    ELSE IF statsFails
    THEN [pc |-> "done", todo |-> <<>>, errors |-> errors, ran |-> {"prune", "stats"},
          settled |-> "rejected"]
    ELSE [pc |-> "done", todo |-> <<>>, errors |-> errors, ran |-> LaterSteps,
          settled |-> "resolved"]

\* Steps 2 to 4 of execute() and its return: errors is report.errors as
\* step 1 left it.
RunEnd(errors, pruneFails, statsFails) ==
    LET afterPrune == IF pruneFails THEN Append(errors, "Prune") ELSE errors
        afterStats == IF statsFails THEN Append(afterPrune, "Stats") ELSE afterPrune
    IN [pc |-> "done", todo |-> <<>>, errors |-> afterStats, ran |-> LaterSteps,
        settled |-> "resolved"]

\* The day files after step 2.
ArchiveAfterPrune(archive, cutoff, pruneFails) ==
    IF pruneFails THEN archive ELSE PruneOld(archive, cutoff)

RunsInProgress == {r \in 1..Len(mRuns) : mRuns[r].pc # "done"}

InitMaint ==
    /\ ArchIdle
    /\ IdxIdle
    /\ FtsIdle
    /\ CmpIdle
    /\ SvcIdle
    /\ AncIdle
    /\ CovIdle
    /\ TopicsIdle
    /\ HooksIdle
    /\ StoIdle
    /\ TurnIdle
    /\ AgentsIdle
    /\ BudIdle
    /\ SrchIdle
    /\ mRunCount = 0
    /\ mInterval = "unset"
    /\ mRuns = <<>>
    /\ mArchive \in SUBSET Dates
    /\ mIndexed \in SUBSET Dates
    /\ mCutoff \in Dates
    /\ mIndexerReady \in BOOLEAN
    /\ mPruneFails \in BOOLEAN
    /\ mStatsFails \in BOOLEAN

\* execute() from its call to its first await, or to its return when it has
\* no date to index: steps 2 to 4 (prune, stats, log) then run at once.
Execute ==
    /\ mRunCount < MaxRuns
    /\ mRunCount' = mRunCount + 1
    /\ LET todo == NextToIndex(GetUnindexedDates(mArchive, mIndexed), mArchive)
       IN IF todo = <<>>
          THEN /\ mRuns' = Append(mRuns, RunEnd(<<>>, mPruneFails, mStatsFails))
               /\ mArchive' = ArchiveAfterPrune(mArchive, mCutoff, mPruneFails)
          ELSE /\ mRuns' = Append(mRuns, RunAt("indexDay", todo))
               /\ UNCHANGED mArchive
    /\ UNCHANGED <<mIndexed, mCutoff, mIndexerReady, mPruneFails, mStatsFails,
                   otherThanMnt>>

\* The service's start: the first run.
ServiceStart ==
    /\ mRunCount = 0
    /\ mInterval = "unset"
    /\ Execute
    /\ UNCHANGED mInterval

\* The service's start after `await m.execute()`: startInterval.
StartInterval ==
    /\ Len(mRuns) >= 1
    /\ mRuns[1].pc = "done"
    /\ mInterval = "unset"
    /\ mInterval' = "active"
    /\ UNCHANGED <<mRunCount, mRuns, mIndexed, mArchive, mCutoff, mIndexerReady, mPruneFails, mStatsFails,
                   otherThanMnt>>

\* The interval timer fires: its callback calls execute().
TimerTick ==
    /\ mInterval = "active"
    /\ Execute
    /\ UNCHANGED mInterval

\* stopInterval.
StopInterval ==
    /\ mInterval = "active"
    /\ mInterval' = "cleared"
    /\ UNCHANGED <<mRunCount, mRuns, mIndexed, mArchive, mCutoff, mIndexerReady, mPruneFails, mStatsFails,
                   otherThanMnt>>

\* `await indexDay` of a run ends. indexDay marked the date indexed, and the
\* run goes to its sleep; or indexDay threw (the Indexer is not initialised),
\* the catch block ends step 1 and the run finishes.
IndexDayReturns(r) ==
    /\ r \in 1..Len(mRuns)
    /\ mRuns[r].pc = "indexDay"
    /\ IF mIndexerReady
       THEN /\ mIndexed' = mIndexed \cup {Head(mRuns[r].todo)}
            /\ mRuns' = [mRuns EXCEPT ![r].pc = "sleep"]
            /\ UNCHANGED mArchive
       ELSE /\ mRuns' = [mRuns EXCEPT ![r] = RunEnd(<<"Batch index">>, mPruneFails, mStatsFails)]
            /\ mArchive' = ArchiveAfterPrune(mArchive, mCutoff, mPruneFails)
            /\ UNCHANGED mIndexed
    /\ UNCHANGED <<mRunCount, mInterval, mCutoff, mIndexerReady, mPruneFails, mStatsFails,
                   otherThanMnt>>

\* `await _sleep(batchDelay)` of a run ends: the loop goes to the next date,
\* or the run finishes.
SleepReturns(r) ==
    /\ r \in 1..Len(mRuns)
    /\ mRuns[r].pc = "sleep"
    /\ LET rest == NextToIndex(Tail(mRuns[r].todo), mArchive)
       IN IF rest = <<>>
          THEN /\ mRuns' = [mRuns EXCEPT ![r] = RunEnd(<<>>, mPruneFails, mStatsFails)]
               /\ mArchive' = ArchiveAfterPrune(mArchive, mCutoff, mPruneFails)
          ELSE /\ mRuns' = [mRuns EXCEPT ![r] = [pc |-> "indexDay", todo |-> rest]]
               /\ UNCHANGED mArchive
    /\ UNCHANGED <<mRunCount, mInterval, mIndexed, mCutoff, mIndexerReady, mPruneFails, mStatsFails,
                   otherThanMnt>>

\* A turn's agent_end archives messages of a date that has no day file yet.
ArchiveNewDay(d) ==
    /\ d \notin mArchive
    /\ mArchive' = mArchive \cup {d}
    /\ UNCHANGED <<mRunCount, mInterval, mRuns, mIndexed, mCutoff, mIndexerReady, mPruneFails, mStatsFails,
                   otherThanMnt>>

NextMaint ==
    \/ ServiceStart
    \/ StartInterval
    \/ TimerTick
    \/ StopInterval
    \/ \E r \in 1..MaxRuns : IndexDayReturns(r)
    \/ \E r \in 1..MaxRuns : SleepReturns(r)
    \/ \E d \in Dates : ArchiveNewDay(d)

SpecMaint == InitMaint /\ [][NextMaint]_vars

(***************************************************************************)
(* Archiver.pruneOld beside the index                                       *)
(***************************************************************************)
\* The days one archive directory lives through.
PruneDays == 0..MaxPruneDay

\* this.retentionDays, in days of the model.
RetentionDays == 1

\* cutoffStr: the date retentionDays before today.
CutoffStr(today) == today - RetentionDays

\* The exchange a day's messages pair to.
DayExchange == [user |-> [sender |-> "user", text |-> "p"], agent |-> NoMsg]

InitPrune ==
    /\ ArchIdle
    /\ IdxIdle
    /\ FtsIdle
    /\ CmpIdle
    /\ SvcIdle
    /\ AncIdle
    /\ CovIdle
    /\ TopicsIdle
    /\ HooksIdle
    /\ StoIdle
    /\ MntIdle
    /\ TurnIdle
    /\ AgentsIdle
    /\ BudIdle
    /\ SrchIdle

\* agent_end archives the turn: today's day file is there afterwards.
ArchiveToday ==
    /\ cToday \notin mArchive
    /\ mArchive' = mArchive \cup {cToday}
    /\ UNCHANGED <<mRunCount, mInterval, mRuns, mIndexed, mCutoff, mIndexerReady,
                   mPruneFails, mStatsFails, otherThanMnt>>

\* indexDay on the day file of date d, from its call to its return: the
\* exchange is written when it was embedded, and the date is marked indexed.
PruneIndexDay(d, embedded) ==
    /\ d \in mArchive
    /\ db' = IF embedded
             THEN Transaction(db, ExchangeId(d, 0), ExchangeRow(DayExchange)).db
             ELSE db
    /\ indexLog' = MarkIndexed(indexLog, d)
    /\ UNCHANGED <<ipc, idate, imsgs, ipairs, iidx, iskip, dupKeyFailed, skipped, overlap,
                   otherThanIdx>>

\* The date changes.
PruneMidnight ==
    /\ cToday < MaxPruneDay
    /\ cToday' = cToday + 1
    /\ UNCHANGED <<cFile, cLog, cCovered, cEnd, cRun, otherThanCov>>

\* A run of execute() calls archiver.pruneOld(): every day file dated before
\* the cutoff is unlinked, except those whose unlinkSync throws (`failing`),
\* which the catch block passes over.
ExecutePrune(failing) ==
    /\ mRunCount < MaxRuns
    /\ failing \subseteq {d \in mArchive : d < CutoffStr(cToday)}
    /\ mRunCount' = mRunCount + 1
    /\ mCutoff' = CutoffStr(cToday)
    /\ mArchive' = PruneOld(mArchive, CutoffStr(cToday)) \cup failing
    /\ mPruneFails' = (failing # {})
    /\ UNCHANGED <<mInterval, mRuns, mIndexed, mIndexerReady, mStatsFails, otherThanMnt>>

NextPrune ==
    \/ ArchiveToday
    \/ \E d \in PruneDays, embedded \in BOOLEAN : PruneIndexDay(d, embedded)
    \/ PruneMidnight
    \/ \E failing \in SUBSET PruneDays : ExecutePrune(failing)

SpecPrune == InitPrune /\ [][NextPrune]_vars

\* C38: a pruneOld call in which no unlink fails removes exactly the day
\* files dated before today minus retentionDays; the day files from the
\* cutoff on, the index log and the exchanges and vec_exchanges rows (those
\* of the pruned dates among them) are as they were.
C38_PruneOldRemovesOnlyOldFiles ==
    [][(mRunCount' = mRunCount + 1 /\ ~mPruneFails')
          => /\ mArchive' = {d \in mArchive : d >= cToday - RetentionDays}
             /\ indexLog' = indexLog
             /\ db' = db]_vars

\* After a pruneOld call a pruned date is still in the index log and still
\* has its exchanges and vec_exchanges rows, and a day file inside the
\* retention period is still there.
C38_Witness ==
    /\ mRunCount >= 1
    /\ ~mPruneFails
    /\ mCutoff = cToday - RetentionDays
    /\ \E d \in PruneDays :
          /\ d < mCutoff
          /\ d \notin mArchive
          /\ d \in indexLog
          /\ <<d, 0>> \in DOMAIN db.exchanges
          /\ <<d, 0>> \in db.vec
    /\ \E e \in mArchive : e >= mCutoff /\ e < cToday

(***************************************************************************)
(* The retrieval hooks: before_agent_start, before_tool_call,              *)
(* tool_result_persist                                                      *)
(***************************************************************************)
RelevanceThreshold == 1
RecallLimit == 3
PersistLimit == 5
SparseLimit == 2

ExIndexes == {0, 1}
\* "denial" stands for the texts _filterUsefulExchanges drops.
ExTexts == {"fact", "denial"}
\* compositeScore, below the threshold or not.
Scores == {0, 1}
\* A row the searcher returns.
Exchanges == [date : Dates, exchangeIndex : ExIndexes, text : ExTexts, compositeScore : Scores]

\* What Searcher.search resolves to: rows with distinct ids, sorted by
\* ascending compositeScore (the semantic-only order, and the order of hybrid
\* rows of one score); no rows when the search failed.
SearchResults ==
    UNION {{s \in [1..n -> Exchanges] :
              /\ \A i, j \in 1..n :
                    i < j => /\ ExchangeId(s[i].date, s[i].exchangeIndex)
                                  # ExchangeId(s[j].date, s[j].exchangeIndex)
                             /\ s[i].compositeScore <= s[j].compositeScore}
           : n \in 0..MaxResults}

\* compositeScore of the hybrid searcher: rrfScore * (1 + recencyBoost) is at
\* most (1/61 + 1/61) * 1.15, below the threshold.
HybridScores == {0}

\* results is what state.searcher.search can resolve to: with the hybrid
\* searcher the rows are sorted by descending compositeScore, all in
\* HybridScores.
SearcherGives(variant, results) ==
    variant = "hybrid" =>
        /\ \A i \in 1..Len(results) : results[i].compositeScore \in HybridScores
        /\ \A i, j \in 1..Len(results) :
              i < j => results[i].compositeScore >= results[j].compositeScore

Take(s, n) == SubSeq(s, 1, IF Len(s) < n THEN Len(s) ELSE n)

\* The noise filter that lets everything through.
FilterNothing(exchanges) == exchanges

RECURSIVE FilterUsefulExchanges(_)
\* _filterUsefulExchanges.
FilterUsefulExchanges(exchanges) ==
    IF exchanges = <<>> THEN <<>>
    ELSE LET rest == FilterUsefulExchanges(Tail(exchanges))
         IN IF Head(exchanges).text = "denial" THEN rest ELSE <<Head(exchanges)>> \o rest

\* `a.exchangeIndex || 0`.
IndexOrZero(ex) == IF ex.exchangeIndex = 0 THEN 0 ELSE ex.exchangeIndex

\* The comparator of recalled.sort: date first, then exchangeIndex.
CompareChrono(a, b) ==
    IF a.date # b.date THEN (IF a.date < b.date THEN -1 ELSE 1)
    ELSE IndexOrZero(a) - IndexOrZero(b)

RECURSIVE InsertChrono(_, _)
InsertChrono(sorted, ex) ==
    IF sorted = <<>> THEN <<ex>>
    ELSE IF CompareChrono(ex, Head(sorted)) < 0 THEN <<ex>> \o sorted
    ELSE <<Head(sorted)>> \o InsertChrono(Tail(sorted), ex)

\* A variant that leaves the exchanges in the order the searcher ranked them.
SortChronologicalNone(exchanges) == exchanges

RECURSIVE SortChronological(_)
\* recalled.sort(...): a stable sort by CompareChrono.
SortChronological(exchanges) ==
    IF exchanges = <<>> THEN <<>>
    ELSE InsertChrono(SortChronological(SubSeq(exchanges, 1, Len(exchanges) - 1)),
                      exchanges[Len(exchanges)])

\* The lines before_agent_start starts with, and those of a recall block.
ContextLines == <<"[CONTINUITY CONTEXT]", "Session">>
RecallLines == <<"", "You remember", "Speak from this memory">>
LineTokens == {"[CONTINUITY CONTEXT]", "Session", "", "You remember", "Speak from this memory"}

\* A variant without the outer catch: what the handler throws goes to the host.
OuterCatchNone(threw, lines, shown) ==
    IF threw
    THEN [handler |-> "before_agent_start", kind |-> "rejected",
          prependContext |-> <<>>, shown |-> <<>>]
    ELSE [handler |-> "before_agent_start", kind |-> "resolved",
          prependContext |-> lines, shown |-> shown]

\* The outer try/catch of before_agent_start: the handler resolves to its
\* lines, or to an empty prependContext when its body threw.
OuterCatch(threw, lines, shown) ==
    IF threw
    THEN [handler |-> "before_agent_start", kind |-> "resolved",
          prependContext |-> <<>>, shown |-> <<>>]
    ELSE [handler |-> "before_agent_start", kind |-> "resolved",
          prependContext |-> lines, shown |-> shown]

\* A variant without the inner try block: a failed retrieval reaches the
\* outer catch.
RetrievalFailedThrows(lines) == OuterCatch(TRUE, lines, <<>>)

\* The retrieval gave nothing: the searcher is not available, or the search
\* failed (it resolves to no exchanges, or the inner catch took its throw).
\* The handler returns the lines it had.
RetrievalFailed(lines) == OuterCatch(FALSE, lines, <<>>)

\* The cache is left as it was.
CacheKept(cache) == cache

\* state.lastRetrievalCache = null, before the length of the text is looked at.
CacheAtStart(cache) == NoCache

\* More built-in results than the limit.
MoreThanSparseLimit(n) == n <= SparseLimit

\* The built-in memory_search returned few results: under SparseLimit.
IsSparse(n) == n < SparseLimit

\* A fresh AgentState; sVariant is the searcher.js the plugin was installed with.
InitTurn ==
    /\ ArchIdle
    /\ IdxIdle
    /\ FtsIdle
    /\ CmpIdle
    /\ SvcIdle
    /\ AncIdle
    /\ CovIdle
    /\ TopicsIdle
    /\ HooksIdle
    /\ StoIdle
    /\ MntIdle
    /\ TurnIdle
    /\ AgentsIdle
    /\ BudIdle
    /\ sVariant \in SearcherVariants
    /\ SearcherUnused

\* before_agent_start from its call to its first await or its return.
\* shape: "ok", or what is wrong with the call: "noCtx" (ctx is undefined,
\* reading ctx.agentId throws), "noEvent" (event is undefined, reading
\* event.messages throws after exchangeCount++).
BeforeAgentStart(shape, longText, intent) ==
    /\ tpc = "idle"
    /\ exchangeCount < MaxTurns
    /\ IF shape = "noCtx"
       THEN /\ ret' = OuterCatch(TRUE, <<>>, <<>>)
            /\ UNCHANGED <<tpc, tIntent, exchangeCount, lastRetrievalCache>>
       ELSE IF shape = "noEvent"
       THEN /\ exchangeCount' = exchangeCount + 1
            /\ ret' = OuterCatch(TRUE, <<>>, <<>>)
            /\ UNCHANGED <<tpc, tIntent, lastRetrievalCache>>
       ELSE /\ exchangeCount' = exchangeCount + 1
            /\ lastRetrievalCache' = CacheAtStart(lastRetrievalCache)
            /\ IF longText
               THEN /\ tpc' = "basStorage"
                    /\ tIntent' = intent
                    /\ ret' = NoReturn
               ELSE /\ ret' = OuterCatch(FALSE, ContextLines, <<>>)
                    /\ UNCHANGED <<tpc, tIntent>>
    /\ UNCHANGED <<storageReady, indexer, searcher, otherThanTurn>>

\* `await state.ensureStorage()` ends: storage is ready; the handles are
\* set, or null when the init's try block threw.
StorageSettled(handlesDropped) ==
    IF storageReady
    THEN UNCHANGED <<storageReady, indexer, searcher>>
    ELSE /\ storageReady' = TRUE
         /\ indexer' = (IF handlesDropped THEN 0 ELSE 1)
         /\ searcher' = (IF handlesDropped THEN 0 ELSE 1)

BasStorageSettles(handlesDropped) ==
    /\ tpc = "basStorage"
    /\ StorageSettled(handlesDropped)
    /\ IF searcher' # 0
       THEN /\ tpc' = "basSearch"
            /\ UNCHANGED <<tIntent, ret>>
       ELSE /\ tpc' = "idle"
            /\ tIntent' = FALSE
            /\ ret' = RetrievalFailed(ContextLines)
    /\ UNCHANGED <<exchangeCount, lastRetrievalCache, otherThanTurn>>

\* `await state.searcher.search(...)` of before_agent_start ends: filter,
\* cache, gate on intent or the top score, list the first RecallLimit
\* exchanges in chronological order.
BasSearchGives(results) ==
    /\ tpc = "basSearch"
    /\ SearcherGives(sVariant, results)
    /\ tpc' = "idle"
    /\ tIntent' = FALSE
    /\ LET useful == FilterUsefulExchanges(results)
           inject == /\ useful # <<>>
                     /\ (tIntent \/ useful[1].compositeScore < RelevanceThreshold)
           recalled == SortChronological(Take(useful, RecallLimit))
       IN /\ lastRetrievalCache' =
                IF useful # <<>> THEN [set |-> TRUE, exchanges |-> useful]
                ELSE lastRetrievalCache
          /\ ret' = IF results = <<>>
                    THEN RetrievalFailed(ContextLines)
                    ELSE IF inject
                    THEN OuterCatch(FALSE, ContextLines \o RecallLines, recalled)
                    ELSE OuterCatch(FALSE, ContextLines, <<>>)
    /\ UNCHANGED <<exchangeCount, storageReady, indexer, searcher, otherThanTurn>>

BasSearchReturns ==
    /\ tpc = "basSearch"
    /\ \E results \in SearchResults : BasSearchGives(results)

\* before_tool_call for memory_search with a query of 3 characters or more,
\* to its first await. (For another tool or a shorter query it returns at
\* once and changes nothing.)
BeforeToolCall(toolName, queryOk) ==
    /\ tpc = "idle"
    /\ toolName = "memory_search"
    /\ queryOk
    /\ tpc' = "btcStorage"
    /\ ret' = NoReturn
    /\ UNCHANGED <<tIntent, exchangeCount, lastRetrievalCache, storageReady, indexer, searcher,
                   otherThanTurn>>

BtcStorageSettles(handlesDropped) ==
    /\ tpc = "btcStorage"
    /\ StorageSettled(handlesDropped)
    /\ IF searcher' # 0
       THEN /\ tpc' = "btcSearch"
            /\ UNCHANGED ret
       ELSE /\ tpc' = "idle"
            /\ ret' = [NoReturn EXCEPT !.handler = "before_tool_call", !.kind = "undefined"]
    /\ UNCHANGED <<tIntent, exchangeCount, lastRetrievalCache, otherThanTurn>>

\* `await state.searcher.search(query, 30)` of before_tool_call ends: the
\* results are cached as they are when there are any.
BtcSearchGives(results) ==
    /\ tpc = "btcSearch"
    /\ SearcherGives(sVariant, results)
    /\ tpc' = "idle"
    /\ lastRetrievalCache' =
          IF results # <<>> THEN [set |-> TRUE, exchanges |-> results]
          ELSE lastRetrievalCache
    /\ ret' = [NoReturn EXCEPT !.handler = "before_tool_call", !.kind = "undefined"]
    /\ UNCHANGED <<tIntent, exchangeCount, storageReady, indexer, searcher, otherThanTurn>>

\* compositeScore is read by before_agent_start only (its relevance test);
\* nothing reads it in the cache before_tool_call fills, so the rows of this
\* handler are drawn with one score.
ToolSearchResults ==
    {s \in SearchResults : \A i \in 1..Len(s) : s[i].compositeScore = 0}

BtcSearchReturns ==
    /\ tpc = "btcSearch"
    /\ \E results \in ToolSearchResults : BtcSearchGives(results)

\* What JSON.parse(resultText) gives: it throws ("invalid"), or returns an
\* object (whose results are builtinResults) or null.
ParsedKinds == {"invalid", "object", "null"}

\* tool_result_persist (synchronous): returns undefined, or the message
\* enriched with the first PersistLimit useful exchanges of the cache; with
\* the text "null" it throws where it sets parsed.results.
ToolResultPersist(toolName, parsed, builtinResults) ==
    /\ tpc = "idle"
    /\ parsed # "object" => builtinResults = 0
    /\ LET useful == FilterUsefulExchanges(lastRetrievalCache.exchanges)
           shown == Take(useful, PersistLimit)
       IN ret' = IF /\ toolName = "memory_search"
                    /\ parsed # "invalid"
                    /\ IsSparse(builtinResults)
                    /\ lastRetrievalCache.set
                    /\ shown # <<>>
                 THEN IF parsed = "null"
                      THEN [handler |-> "tool_result_persist", kind |-> "threw",
                            prependContext |-> <<>>, shown |-> <<>>]
                      ELSE [handler |-> "tool_result_persist", kind |-> "message",
                            prependContext |-> <<>>, shown |-> shown]
                 ELSE [handler |-> "tool_result_persist", kind |-> "undefined",
                       prependContext |-> <<>>, shown |-> <<>>]
    /\ UNCHANGED <<tpc, tIntent, exchangeCount, lastRetrievalCache, storageReady, indexer,
                   searcher, otherThanTurn>>

ToolNames == {"memory_search", "read"}

NextTurn ==
    \/ \E shape \in {"ok", "noCtx", "noEvent"}, longText, intent \in BOOLEAN :
          BeforeAgentStart(shape, longText, intent)
    \/ \E handlesDropped \in BOOLEAN : BasStorageSettles(handlesDropped)
    \/ BasSearchReturns
    \/ \E toolName \in ToolNames, queryOk \in BOOLEAN : BeforeToolCall(toolName, queryOk)
    \/ \E handlesDropped \in BOOLEAN : BtcStorageSettles(handlesDropped)
    \/ BtcSearchReturns
    \/ \E toolName \in ToolNames, parsed \in ParsedKinds, builtinResults \in 0..SparseLimit :
          ToolResultPersist(toolName, parsed, builtinResults)

SpecTurn == InitTurn /\ [][NextTurn]_vars

(***************************************************************************)
(* before_agent_start and before_tool_call of one agent, overlapping: the  *)
(* host may call a handler while another is at an await.                    *)
(***************************************************************************)
\* What a search resolves to here: no row, a useful row or a noise row.
OverlapResults ==
    {<<>>} \cup {<<[date |-> 0, exchangeIndex |-> 0, text |-> t, compositeScore |-> 0]>> :
                    t \in ExTexts}

InitOverlap ==
    /\ ArchIdle
    /\ IdxIdle
    /\ FtsIdle
    /\ CmpIdle
    /\ SvcIdle
    /\ AncIdle
    /\ CovIdle
    /\ TopicsIdle
    /\ StoIdle
    /\ MntIdle
    /\ TurnIdle
    /\ AgentsIdle
    /\ BudIdle
    /\ SrchIdle
    /\ HooksIdle

\* The host calls handlers in the order of their numbers.
NextHandler(h) == hpc[h] = "idle" /\ \A g \in Handlers : g < h => hpc[g] # "idle"

\* before_agent_start from its call to its first await or its return.
OverlapBeforeAgentStart(h, longText) ==
    /\ NextHandler(h)
    /\ hkind' = [hkind EXCEPT ![h] = "before_agent_start"]
    /\ hCount' = hCount + 1
    /\ hturn' = [hturn EXCEPT ![h] = hCount + 1]
    /\ hCache' = CacheAtStart(hCache)
    /\ hCacheBy' = 0
    /\ hpc' = [hpc EXCEPT ![h] = IF longText THEN "storage" ELSE "done"]
    /\ UNCHANGED <<hSearcher, otherThanHooks>>

\* before_tool_call for memory_search with a query of 3 characters or more,
\* to its first await.
OverlapBeforeToolCall(h) ==
    /\ NextHandler(h)
    /\ hkind' = [hkind EXCEPT ![h] = "before_tool_call"]
    /\ hturn' = [hturn EXCEPT ![h] = hCount]
    /\ hpc' = [hpc EXCEPT ![h] = "storage"]
    /\ UNCHANGED <<hCount, hCache, hCacheBy, hSearcher, otherThanHooks>>

\* `await state.ensureStorage()` of handler h ends; the first to end finds
\* what the init left in state.searcher.
OverlapStorageSettles(h, handlesDropped) ==
    /\ hpc[h] = "storage"
    /\ hSearcher' = IF hSearcher # "unset" THEN hSearcher
                    ELSE IF handlesDropped THEN "null" ELSE "ok"
    /\ hpc' = [hpc EXCEPT ![h] = IF hSearcher' = "ok" THEN "search" ELSE "done"]
    /\ UNCHANGED <<hkind, hturn, hCount, hCache, hCacheBy, otherThanHooks>>

\* `await state.searcher.search(...)` of handler h ends: before_agent_start
\* caches the filtered rows when there are any, before_tool_call the rows
\* as they are.
OverlapSearchReturns(h, results) ==
    /\ hpc[h] = "search"
    /\ LET kept == IF hkind[h] = "before_agent_start"
                   THEN FilterUsefulExchanges(results) ELSE results
       IN IF kept # <<>>
          THEN /\ hCache' = [set |-> TRUE, exchanges |-> kept]
               /\ hCacheBy' = h
          ELSE UNCHANGED <<hCache, hCacheBy>>
    /\ hpc' = [hpc EXCEPT ![h] = "done"]
    /\ UNCHANGED <<hkind, hturn, hCount, hSearcher, otherThanHooks>>

NextOverlap ==
    \/ \E h \in Handlers, longText \in BOOLEAN : OverlapBeforeAgentStart(h, longText)
    \/ \E h \in Handlers : OverlapBeforeToolCall(h)
    \/ \E h \in Handlers, handlesDropped \in BOOLEAN : OverlapStorageSettles(h, handlesDropped)
    \/ \E h \in Handlers, results \in OverlapResults : OverlapSearchReturns(h, results)

SpecOverlap == InitOverlap /\ [][NextOverlap]_vars

(***************************************************************************)
(* TopicTracker                                                             *)
(*                                                                          *)
(* A text is a sequence of whitespace-separated tokens; a token is a word  *)
(* alone ("plain"), followed by punctuation ("trail", as in `identity,`)   *)
(* or preceded by it ("lead", as in `(identity`).  The configuration is a  *)
(* small one.  lastTimestamp and firstSeen, which nothing here reads, and   *)
(* the order of the Map are left out.                                       *)
(***************************************************************************)
\* tc.windowSize, tc.fixationThreshold, tc.minWordLength of the configuration.
WindowSize == 2
FixationThreshold == 2
MinWordLength == 5

StopWords == {"about"}
WordLength == [w \in Words |-> IF w = Subject THEN 8 ELSE 5]
Shapes == {"plain", "trail", "lead"}
Tokens == [word : Words, shape : Shapes]
TrackedTexts == UNION {[1..n -> Tokens] : n \in 0..MaxTextWords}

\* The token as split(/\s+/) gives it: its length, whether it is a stop
\* word as written, whether it starts with a letter.
TokenLength(t) == WordLength[t.word] + (IF t.shape = "plain" THEN 0 ELSE 1)
PassesFilter(t) ==
    /\ TokenLength(t) >= MinWordLength
    /\ ~(t.shape = "plain" /\ t.word \in StopWords)
    /\ t.shape # "lead"

\* w.replace(/[^a-z0-9-]/g, ''): the punctuation goes.
Cleaned(t) == t.word

\* freq.get(word): the filtered tokens that clean to the word.
Freq(text, word) ==
    Cardinality({i \in 1..Len(text) : PassesFilter(text[i]) /\ Cleaned(text[i]) = word})

\* A variant in which every occurrence of a topic is a topic of its own.
ExtractTopicsRepeated(text, map) ==
    [w \in Words |-> IF Freq(text, w) >= 2 \/ (Freq(text, w) >= 1 /\ map[w].tracked)
                     THEN Freq(text, w) ELSE 0]

\* extractTopics without custom patterns: word -> 1 when the word is in the
\* Set it returns, else 0.
ExtractTopics(text, map) ==
    [w \in Words |-> IF Freq(text, w) >= 2 \/ (Freq(text, w) >= 1 /\ map[w].tracked)
                     THEN 1 ELSE 0]

\* A window one exchange shorter.
OutsideShorterWindow(data, current) == data.lastSeen <= current - WindowSize

\* data.lastSeen < cutoff.
OutsideWindow(data, current) == data.lastSeen < current - WindowSize

\* _pruneWindow.
PruneWindow(map, current) ==
    [w \in Words |-> IF map[w].tracked /\ OutsideWindow(map[w], current)
                     THEN NoTopic ELSE map[w]]

\* The loop of track over the extracted topics.
UpdateMentions(map, found, current) ==
    [w \in Words |->
        IF found[w] = 0 THEN map[w]
        ELSE IF map[w].tracked
        THEN [tracked |-> TRUE, mentions |-> map[w].mentions + found[w], lastSeen |-> current]
        ELSE [tracked |-> TRUE, mentions |-> found[w], lastSeen |-> current]]

\* getAllTopics and getFixatedTopics: the words they report.
GetAllTopics(map) == {w \in Words : map[w].tracked}
GetFixatedTopics(map) ==
    {w \in Words : map[w].tracked /\ map[w].mentions >= FixationThreshold}

\* How often the word occurs in the text, whatever stands around it.
Occurrences(text, word) == Cardinality({i \in 1..Len(text) : text[i].word = word})

InitTopics ==
    /\ ArchIdle
    /\ IdxIdle
    /\ FtsIdle
    /\ CmpIdle
    /\ SvcIdle
    /\ AncIdle
    /\ CovIdle
    /\ HooksIdle
    /\ StoIdle
    /\ MntIdle
    /\ TurnIdle
    /\ AgentsIdle
    /\ BudIdle
    /\ SrchIdle
    /\ TopicsIdle

\* track(messageText), as after_tool_call and agent_end call it: without an
\* exchangeIndex.
Track(text) ==
    /\ currentExchange < MaxExchange
    /\ currentExchange' = currentExchange + 1
    /\ LET pruned == PruneWindow(topics, currentExchange')
           found == IF text = <<>> THEN [w \in Words |-> 0] ELSE ExtractTopics(text, pruned)
       IN /\ topics' = UpdateMentions(pruned, found, currentExchange')
          /\ lastOccur' = Occurrences(text, Subject)
          /\ streak' = IF Occurrences(text, Subject) < 2 THEN 0
                       ELSE IF streak < FixationThreshold THEN streak + 1 ELSE streak
          /\ streakKept' =
                IF Freq(text, Subject) < 2 THEN 0
                ELSE IF streakKept = 0 \/ currentExchange' - topics[Subject].lastSeen > WindowSize
                THEN 1
                ELSE IF streakKept < FixationThreshold THEN streakKept + 1 ELSE streakKept
    /\ UNCHANGED otherThanTopics

\* advanceExchange.
AdvanceExchange ==
    /\ currentExchange < MaxExchange
    /\ currentExchange' = currentExchange + 1
    /\ UNCHANGED <<topics, lastOccur, streak, streakKept, otherThanTopics>>

\* reset, which session_start calls.
Reset ==
    /\ topics' = [w \in Words |-> NoTopic]
    /\ currentExchange' = 0
    /\ lastOccur' = 0
    /\ streak' = 0
    /\ streakKept' = 0
    /\ UNCHANGED otherThanTopics

NextTopics ==
    \/ \E text \in TrackedTexts : Track(text)
    \/ AdvanceExchange
    \/ Reset

SpecTopics == InitTopics /\ [][NextTopics]_vars

(***************************************************************************)
(* ContinuityAnchors: detect scans the user messages of the list it is      *)
(* given for the keywords of each anchor type, then prunes by age and count.*)
(* Instants are clock ticks; priorities are in tenths.                      *)
(***************************************************************************)
\* this.maxAge and this.maxCount of the instance.
AnchorMaxAge == 2
AnchorMaxCount == 2

\* Object.entries(this.keywords), in insertion order.
AnchorTypes == <<"identity", "contradiction", "tension">>

\* _priorityForType.
PriorityForType(type) ==
    CASE type = "identity" -> 10
      [] type = "contradiction" -> 10
      [] type = "tension" -> 7
      [] OTHER -> 5

\* The texts of the messages: one with no keyword, one with a keyword of
\* identity, one with keywords of contradiction and of tension.
AnchorTexts == {"hello", "my name", "but a problem"}

\* lowerText.includes(keyword) for some keyword of the type.
HasKeyword(text, type) ==
    \/ text = "my name" /\ type = "identity"
    \/ text = "but a problem" /\ type \in {"contradiction", "tension"}

\* msg.timestamp: absent, or the ISO string of an instant.
NoStamp == 0 - 1
AnchorStamps == {NoStamp, 0}

AnchorMsgs ==
    [role : {"user"}, timestamp : AnchorStamps, text : AnchorTexts]
    \cup {[role |-> "assistant", timestamp |-> NoStamp, text |-> "my name"]}

\* What a turn adds to the session's messages before agent_end: nothing, or
\* one message.
AnchorTurns == {<<>>} \cup {<<m>> : m \in AnchorMsgs}

\* `msg.timestamp ? new Date(msg.timestamp).getTime() : now`.
AnchorTimestamp(msg, clock) == IF msg.timestamp # NoStamp THEN msg.timestamp ELSE clock

\* A variant of the role test that lets every message through.
ScansRoleAny(msg) == TRUE

\* `if (msg.role !== 'user') continue`.
ScansRole(msg) == msg.role = "user"

\* `this._anchors.some(a => a.messageIndex === i && a.type === type)`.
IsDuplicate(list, i, type) ==
    \E k \in 1..Len(list) : list[k].messageIndex = i /\ list[k].type = type

RECURSIVE ScanTypes(_, _, _, _, _)
\* The loop over the anchor types for message i: the first matching keyword
\* of a type pushes one anchor unless the pair (i, type) has one. The role is
\* kept with the anchor to tell which kind of message it came from.
ScanTypes(list, msg, i, t, clock) ==
    IF t > Len(AnchorTypes) THEN list
    ELSE LET type == AnchorTypes[t]
         IN IF HasKeyword(msg.text, type) /\ ~IsDuplicate(list, i, type)
            THEN ScanTypes(Append(list, [type |-> type,
                                         priority |-> PriorityForType(type),
                                         timestamp |-> AnchorTimestamp(msg, clock),
                                         messageIndex |-> i,
                                         role |-> msg.role]),
                           msg, i, t + 1, clock)
            ELSE ScanTypes(list, msg, i, t + 1, clock)

RECURSIVE ScanMessages(_, _, _, _)
\* The loop over the messages, from index i on.
ScanMessages(list, messages, i, clock) ==
    IF i > Len(messages) THEN list
    ELSE IF ScansRole(messages[i])
         THEN ScanMessages(ScanTypes(list, messages[i], i, 1, clock), messages, i + 1, clock)
         ELSE ScanMessages(list, messages, i + 1, clock)

\* A variant of the age filter that keeps every anchor.
NotExpiredEver(a, cutoff) == TRUE

\* `a.timestamp >= cutoff`.
NotExpired(a, cutoff) == a.timestamp >= cutoff

RECURSIVE FilterAge(_, _)
FilterAge(list, cutoff) ==
    IF list = <<>> THEN <<>>
    ELSE IF NotExpired(Head(list), cutoff)
         THEN <<Head(list)>> \o FilterAge(Tail(list), cutoff)
         ELSE FilterAge(Tail(list), cutoff)

\* The comparator of prune puts a before b.
AnchorBefore(a, b) ==
    \/ a.priority > b.priority
    \/ a.priority = b.priority /\ a.timestamp > b.timestamp

RECURSIVE InsertAnchor(_, _)
InsertAnchor(sorted, a) ==
    IF sorted = <<>> THEN <<a>>
    ELSE IF AnchorBefore(a, Head(sorted))
         THEN <<a>> \o sorted
         ELSE <<Head(sorted)>> \o InsertAnchor(Tail(sorted), a)

RECURSIVE SortAnchors(_)
\* Array.prototype.sort with the comparator of prune: stable.
SortAnchors(list) ==
    IF list = <<>> THEN <<>>
    ELSE InsertAnchor(SortAnchors(SubSeq(list, 1, Len(list) - 1)), list[Len(list)])

\* prune(anchors, maxAge, maxCount) when the clock reads `clock`.
PruneAnchors(list, maxAge, maxCount, clock) ==
    LET pruned == SortAnchors(FilterAge(list, clock - maxAge))
    IN IF Len(pruned) > maxCount THEN SubSeq(pruned, 1, maxCount) ELSE pruned

\* The anchors of list the age filter drops.
ExpiredOf(list, cutoff) ==
    {[type |-> list[k].type, messageIndex |-> list[k].messageIndex] :
        k \in {j \in 1..Len(list) : ~NotExpired(list[j], cutoff)}}

InitAnchors ==
    /\ ArchIdle
    /\ IdxIdle
    /\ FtsIdle
    /\ CmpIdle
    /\ SvcIdle
    /\ AncIdle
    /\ TopicsIdle
    /\ HooksIdle
    /\ CovIdle
    /\ StoIdle
    /\ MntIdle
    /\ TurnIdle
    /\ AgentsIdle
    /\ BudIdle
    /\ SrchIdle

\* detect(messages), as agent_end calls it: messages are the session's
\* messages, those of the last call and what the turn added. The clock may
\* move on between the Date.now() of detect and the one of prune.
Detect(turn, tick) ==
    /\ aNow + tick <= MaxAnchorClock
    /\ Len(aLast) + Len(turn) <= MaxAnchorMsgs
    /\ aNow' = aNow + tick
    /\ aOp' = "detect"
    /\ aLast' = aLast \o turn
    /\ IF aLast' = <<>>
       THEN UNCHANGED <<anchors, aExpired>>
       ELSE LET scanned == ScanMessages(anchors, aLast', 1, aNow)
            IN /\ anchors' = PruneAnchors(scanned, AnchorMaxAge, AnchorMaxCount, aNow')
               /\ aExpired' = aExpired \cup ExpiredOf(scanned, aNow' - AnchorMaxAge)
    /\ UNCHANGED otherThanAnc

\* reset(), which session_start calls: the next session's messages start
\* empty.
AnchorsReset ==
    /\ anchors' = <<>>
    /\ aOp' = "reset"
    /\ aLast' = <<>>
    /\ aExpired' = {}
    /\ UNCHANGED <<aNow, otherThanAnc>>

\* Time passes between two calls.
AnchorTick ==
    /\ aNow < MaxAnchorClock
    /\ aNow' = aNow + 1
    /\ aOp' = "tick"
    /\ UNCHANGED <<anchors, aLast, aExpired, otherThanAnc>>

NextAnchors ==
    \/ \E turn \in AnchorTurns, tick \in {0, 1} : Detect(turn, tick)
    \/ AnchorsReset
    \/ AnchorTick

SpecAnchors == InitAnchors /\ [][NextAnchors]_vars

(***************************************************************************)
(* What gets indexed: agent_end archives a turn's messages under the date  *)
(* of their timestamps and indexes today's day file; execute() indexes the *)
(* dates that are not in the index log.  The Indexer is initialised, no     *)
(* exchange is skipped and no day file is old enough to be pruned.          *)
(***************************************************************************)
InitCover ==
    /\ ArchIdle
    /\ IdxIdle
    /\ FtsIdle
    /\ CmpIdle
    /\ SvcIdle
    /\ AncIdle
    /\ TopicsIdle
    /\ HooksIdle
    /\ StoIdle
    /\ MntIdle
    /\ TurnIdle
    /\ AgentsIdle
    /\ BudIdle
    /\ SrchIdle
    /\ CovIdle

\* The dates that have a day file.
ArchivedDates(file) == {d \in Dates : file[d] # {}}

\* The messages that are in a day file.
Archived(file) == UNION {file[d] : d \in Dates}

\* `const today = new Date().toISOString().substring(0, 10)`: the date the
\* incremental pass indexes is the current one, whatever the date d of the
\* archived message.
IncrementalDate(today, d) == today

\* agent_end with message m, whose timestamp has the date d (today, or an
\* earlier date: the host's timestamp, or midnight passing before the
\* incremental pass): archive it, then read today's day file and call
\* indexDay on it when there is one.
AgentEnd(m, d) ==
    /\ cEnd.pc = "idle"
    /\ m \notin Archived(cFile)
    /\ \A k \in CoverMsgs : k < m => k \in Archived(cFile)
    /\ d <= cToday
    /\ cFile' = [cFile EXCEPT ![d] = @ \cup {m}]
    /\ LET date == IncrementalDate(cToday, d)
       IN cEnd' = IF cFile'[date] # {}
                  THEN [pc |-> "indexDay", date |-> date, snap |-> cFile'[date]]
                  ELSE NoIndexDay
    /\ UNCHANGED <<cToday, cLog, cCovered, cRun, otherThanCov>>

\* `await state.indexer.indexDay(today, conversation.messages)` of agent_end
\* ends: the snapshot is indexed and the date marked.
EndIndexDayReturns ==
    /\ cEnd.pc = "indexDay"
    /\ cCovered' = cCovered \cup cEnd.snap
    /\ cLog' = MarkIndexed(cLog, cEnd.date)
    /\ cEnd' = NoIndexDay
    /\ UNCHANGED <<cToday, cFile, cRun, otherThanCov>>

\* execute(), which the interval timer calls: the dates to index are those
\* with a day file that the index log does not name.
CoverExecute ==
    /\ cRun.pc = "idle"
    /\ LET todo == GetUnindexedDates(ArchivedDates(cFile), cLog)
       IN cRun' = IF todo = <<>> THEN NoRun
                  ELSE [pc |-> "indexDay", todo |-> todo, snap |-> cFile[Head(todo)]]
    /\ UNCHANGED <<cToday, cFile, cLog, cCovered, cEnd, otherThanCov>>

\* `await this.indexer.indexDay(date, conversation.messages)` of the run ends.
CoverIndexDayReturns ==
    /\ cRun.pc = "indexDay"
    /\ cCovered' = cCovered \cup cRun.snap
    /\ cLog' = MarkIndexed(cLog, Head(cRun.todo))
    /\ cRun' = [cRun EXCEPT !.pc = "sleep", !.snap = {}]
    /\ UNCHANGED <<cToday, cFile, cEnd, otherThanCov>>

\* `await _sleep(batchDelay)` of the run ends: the next date's day file is
\* read, or the run is over.
CoverSleepReturns ==
    /\ cRun.pc = "sleep"
    /\ LET rest == Tail(cRun.todo)
       IN cRun' = IF rest = <<>> THEN NoRun
                  ELSE [pc |-> "indexDay", todo |-> rest, snap |-> cFile[Head(rest)]]
    /\ UNCHANGED <<cToday, cFile, cLog, cCovered, cEnd, otherThanCov>>

\* Midnight UTC.
Midnight ==
    /\ cToday + 1 \in Dates
    /\ cToday' = cToday + 1
    /\ UNCHANGED <<cFile, cLog, cCovered, cEnd, cRun, otherThanCov>>

NextCover ==
    \/ \E m \in CoverMsgs, d \in Dates : AgentEnd(m, d)
    \/ EndIndexDayReturns
    \/ CoverExecute
    \/ CoverIndexDayReturns
    \/ CoverSleepReturns
    \/ Midnight

SpecCover == InitCover /\ [][NextCover]_vars

\* Every await ends, and the interval timer keeps calling execute().
SpecCoverLive ==
    /\ SpecCover
    /\ WF_vars(EndIndexDayReturns)
    /\ WF_vars(CoverExecute)
    /\ WF_vars(CoverIndexDayReturns)
    /\ WF_vars(CoverSleepReturns)

(***************************************************************************)
(* The continuity-maintenance service while it runs: start() visits the    *)
(* entries of agentStates, and the hooks add entries and make storage      *)
(* ready.                                                                   *)
(***************************************************************************)
InitService ==
    /\ ArchIdle
    /\ IdxIdle
    /\ FtsIdle
    /\ CmpIdle
    /\ SvcIdle
    /\ AncIdle
    /\ CovIdle
    /\ TopicsIdle
    /\ HooksIdle
    /\ StoIdle
    /\ MntIdle
    /\ TurnIdle
    /\ AgentsIdle
    /\ BudIdle
    /\ SrchIdle

\* agentStates.set(key, state) when the key is new: a Map keeps insertion
\* order.
KnownWith(known, a) ==
    IF \E k \in 1..Len(known) : known[k] = a THEN known ELSE Append(known, a)

\* maintenanceInstances after ensureStorage of agent a: ensureStorage does
\* not touch it.
MaintAfterEnsure(maint, a, ready, start) == maint

\* ensureStorage of agent a settles: storage is ready with an Indexer, or
\* its try block threw and indexer is null.
ReadyAfterEnsure(ready, a, ok) == IF ok THEN ready \cup {a} ELSE ready

\* A hook of agent a that calls getAgentState and ensureStorage.
SvcAgentSeen(a, ok) ==
    /\ vKnown' = KnownWith(vKnown, a)
    /\ vReady' = ReadyAfterEnsure(vReady, a, ok)
    /\ vMaint' = MaintAfterEnsure(vMaint, a, vReady', vStart)
    /\ UNCHANGED <<vStart, vPos, vCycled, otherThanSvc>>

\* The host starts the service.
SvcStart ==
    /\ vStart = "unstarted"
    /\ vStart' = "loop"
    /\ vPos' = 1
    /\ UNCHANGED <<vKnown, vReady, vMaint, vCycled, otherThanSvc>>

\* One pass of the loop of start(), or its end: ensureStorage, and with an
\* Indexer a MaintenanceService that runs once and gets its interval. The
\* iterator of a Map visits the entries added while the loop runs.
SvcStartStep(ok) ==
    /\ vStart = "loop"
    /\ IF vPos > Len(vKnown)
       THEN /\ vStart' = "started"
            /\ UNCHANGED <<vPos, vReady, vMaint>>
       ELSE LET a == vKnown[vPos]
            IN /\ vReady' = ReadyAfterEnsure(vReady, a, ok)
               /\ vMaint' = IF a \in vReady' THEN vMaint \cup {a} ELSE vMaint
               /\ vPos' = vPos + 1
               /\ UNCHANGED vStart
    /\ UNCHANGED <<vKnown, vCycled, otherThanSvc>>

\* The interval timer of agent a's MaintenanceService fires: execute().
SvcTimer(a) ==
    /\ a \in vMaint
    /\ vCycled' = vCycled \cup {a}
    /\ UNCHANGED <<vKnown, vReady, vStart, vPos, vMaint, otherThanSvc>>

NextService ==
    \/ \E a \in AgentKeys, ok \in BOOLEAN : SvcAgentSeen(a, ok)
    \/ SvcStart
    \/ \E ok \in BOOLEAN : SvcStartStep(ok)
    \/ \E a \in AgentKeys : SvcTimer(a)

SpecService == InitService /\ [][NextService]_vars

\* The host starts the service, every await of start() ends and every timer
\* that is set fires.
SpecServiceLive ==
    /\ SpecService
    /\ WF_vars(SvcStart)
    /\ WF_vars(\E ok \in BOOLEAN : SvcStartStep(ok))
    /\ \A a \in AgentKeys : WF_vars(SvcTimer(a))

(***************************************************************************)
(* The hook handlers and gateway methods, per agent                         *)
(***************************************************************************)
\* new AgentState(id) at the instant `clock`.
NewAgentState(clock) ==
    [exists |-> TRUE, exchangeCount |-> 0, sessionStart |-> clock, topics |-> FALSE,
     anchors |-> FALSE, lastRetrievalCache |-> FALSE, storageReady |-> FALSE,
     handles |-> FALSE]

\* getAgentState: the entry of the key, created when there is none.
GetAgentState(states, agentId, clock) ==
    IF states[KeyOf(agentId)].exists THEN states[KeyOf(agentId)] ELSE NewAgentState(clock)

\* ensureStorage on a state: storage becomes ready, with its handles unless
\* the init's try block threw.
StorageEnsured(state, handlesDropped) ==
    IF state.storageReady THEN state
    ELSE [state EXCEPT !.storageReady = TRUE, !.handles = ~handlesDropped]

\* Indexer.initialize of ensureStorage opens the database file of the data
\* directory, creating it when there is none.
DatabaseOpened(dir, state) ==
    IF state.storageReady THEN dir ELSE [dir EXCEPT !.database = TRUE]

\* indexDay(today, ...) when the archive has a day file for today: the
\* database and the index log get the date.
TodayIndexed(dir, state, clock) ==
    IF state.handles /\ (\E t \in dir.archive : DateOf(t) = DateOf(clock))
    THEN [dir EXCEPT !.indexLog = dir.indexLog \cup {DateOf(clock)}]
    ELSE dir

InitAgents ==
    /\ ArchIdle
    /\ IdxIdle
    /\ FtsIdle
    /\ CmpIdle
    /\ SvcIdle
    /\ AncIdle
    /\ CovIdle
    /\ TopicsIdle
    /\ HooksIdle
    /\ StoIdle
    /\ MntIdle
    /\ TurnIdle
    /\ AgentsIdle
    /\ BudIdle
    /\ SrchIdle

\* agentStates.set and the files of the agent's data directory.
StatesWith(agentId, state) == [agentStates EXCEPT ![KeyOf(agentId)] = state]
FilesWith(agentId, dir) == [fs EXCEPT ![DataDirOf(KeyOf(agentId))] = dir]

HookBeforeAgentStart(agentId, longText, handlesDropped, found) ==
    /\ events < MaxEvents
    /\ events' = events + 1
    /\ opAgent' = agentId
    /\ LET state == GetAgentState(agentStates, agentId, now)
           counted == [state EXCEPT !.exchangeCount = state.exchangeCount + 1,
                                    !.lastRetrievalCache = FALSE]
           ready == IF longText THEN StorageEnsured(counted, handlesDropped) ELSE counted
           dir == fs[DataDirOf(KeyOf(agentId))]
       IN /\ agentStates' = StatesWith(agentId,
                 [ready EXCEPT !.lastRetrievalCache = longText /\ ready.handles /\ found])
          /\ fs' = FilesWith(agentId, IF longText THEN DatabaseOpened(dir, counted) ELSE dir)
    /\ UNCHANGED <<now, otherThanAgents>>

HookBeforeToolCall(agentId, handlesDropped, found) ==
    /\ events < MaxEvents
    /\ events' = events + 1
    /\ opAgent' = agentId
    /\ LET state == GetAgentState(agentStates, agentId, now)
           ready == StorageEnsured(state, handlesDropped)
       IN /\ agentStates' = StatesWith(agentId,
                 [ready EXCEPT !.lastRetrievalCache =
                                   state.lastRetrievalCache \/ (ready.handles /\ found)])
          /\ fs' = FilesWith(agentId, DatabaseOpened(fs[DataDirOf(KeyOf(agentId))], state))
    /\ UNCHANGED <<now, otherThanAgents>>

HookAfterToolCall(agentId, tracked) ==
    /\ events < MaxEvents
    /\ events' = events + 1
    /\ opAgent' = agentId
    /\ LET state == GetAgentState(agentStates, agentId, now)
       IN agentStates' = StatesWith(agentId, [state EXCEPT !.topics = state.topics \/ tracked])
    /\ UNCHANGED <<fs, now, otherThanAgents>>

HookToolResultPersist(agentId) ==
    /\ events < MaxEvents
    /\ events' = events + 1
    /\ opAgent' = agentId
    /\ agentStates' = StatesWith(agentId, GetAgentState(agentStates, agentId, now))
    /\ UNCHANGED <<fs, now, otherThanAgents>>

\* agent_end with a user or an assistant message: topics, anchors, the
\* archive of the exchange (stamped with the clock), the index of today.
HookAgentEnd(agentId, tracked, anchored, handlesDropped) ==
    /\ events < MaxEvents
    /\ events' = events + 1
    /\ opAgent' = agentId
    /\ LET state == GetAgentState(agentStates, agentId, now)
           noted == [state EXCEPT !.topics = state.topics \/ tracked,
                                  !.anchors = state.anchors \/ anchored]
           ready == StorageEnsured(noted, handlesDropped)
           dir == fs[DataDirOf(KeyOf(agentId))]
           archived == [dir EXCEPT !.archive = dir.archive \cup {now}]
       IN /\ agentStates' = StatesWith(agentId, ready)
          /\ fs' = FilesWith(agentId,
                             TodayIndexed(DatabaseOpened(archived, noted), ready, now))
    /\ UNCHANGED <<now, otherThanAgents>>

HookBeforeCompaction(agentId) ==
    /\ events < MaxEvents
    /\ events' = events + 1
    /\ opAgent' = agentId
    /\ agentStates' = StatesWith(agentId, GetAgentState(agentStates, agentId, now))
    /\ UNCHANGED <<fs, now, otherThanAgents>>

HookSessionStart(agentId) ==
    /\ events < MaxEvents
    /\ events' = events + 1
    /\ opAgent' = agentId
    /\ LET state == GetAgentState(agentStates, agentId, now)
       IN agentStates' = StatesWith(agentId,
              [state EXCEPT !.sessionStart = now, !.exchangeCount = 0,
                            !.topics = FALSE, !.anchors = FALSE])
    /\ UNCHANGED <<fs, now, otherThanAgents>>

HookSessionEnd(agentId, handlesDropped) ==
    /\ events < MaxEvents
    /\ events' = events + 1
    /\ opAgent' = agentId
    /\ LET state == GetAgentState(agentStates, agentId, now)
           ready == StorageEnsured(state, handlesDropped)
           dir == fs[DataDirOf(KeyOf(agentId))]
       IN /\ agentStates' = StatesWith(agentId, ready)
          /\ fs' = FilesWith(agentId, TodayIndexed(DatabaseOpened(dir, state), ready, now))
    /\ UNCHANGED <<now, otherThanAgents>>

\* continuity.getState, continuity.getArchiveStats, continuity.getTopics.
GatewayRead(agentId) ==
    /\ events < MaxEvents
    /\ events' = events + 1
    /\ opAgent' = agentId
    /\ agentStates' = StatesWith(agentId, GetAgentState(agentStates, agentId, now))
    /\ UNCHANGED <<fs, now, otherThanAgents>>

\* continuity.search.
GatewaySearch(agentId, handlesDropped) ==
    /\ events < MaxEvents
    /\ events' = events + 1
    /\ opAgent' = agentId
    /\ LET state == GetAgentState(agentStates, agentId, now)
       IN /\ agentStates' = StatesWith(agentId, StorageEnsured(state, handlesDropped))
          /\ fs' = FilesWith(agentId, DatabaseOpened(fs[DataDirOf(KeyOf(agentId))], state))
    /\ UNCHANGED <<now, otherThanAgents>>

NextAgents ==
    \/ \E agentId \in AgentIds, longText, handlesDropped, found \in BOOLEAN :
          HookBeforeAgentStart(agentId, longText, handlesDropped, found)
    \/ \E agentId \in AgentIds, handlesDropped, found \in BOOLEAN :
          HookBeforeToolCall(agentId, handlesDropped, found)
    \/ \E agentId \in AgentIds, tracked \in BOOLEAN : HookAfterToolCall(agentId, tracked)
    \/ \E agentId \in AgentIds : HookToolResultPersist(agentId)
    \/ \E agentId \in AgentIds, tracked, anchored, handlesDropped \in BOOLEAN :
          HookAgentEnd(agentId, tracked, anchored, handlesDropped)
    \/ \E agentId \in AgentIds : HookBeforeCompaction(agentId)
    \/ \E agentId \in AgentIds : HookSessionStart(agentId)
    \/ \E agentId \in AgentIds, handlesDropped \in BOOLEAN : HookSessionEnd(agentId, handlesDropped)
    \/ \E agentId \in AgentIds : GatewayRead(agentId)
    \/ \E agentId \in AgentIds, handlesDropped \in BOOLEAN : GatewaySearch(agentId, handlesDropped)
    \/ ClockTick

SpecAgents == InitAgents /\ [][NextAgents]_vars

(***************************************************************************)
(* TokenEstimator and ContextBudget                                         *)
(*                                                                          *)
(* A text is a sequence of characters: "a" (a letter), " " (whitespace)    *)
(* and ".", "[", "]" (special characters).  The configuration is a small    *)
(* one: every limit the constructor reads from config is scaled down, the   *)
(* pool ratios are the defaults.                                            *)
(***************************************************************************)
\* config.defaultMaxTokens
DefaultMaxTokens == 20
\* cb.contextBudgetRatio, in percent
BudgetRatioPct == 65
\* cb.recentTurnsAlwaysFull
RecentTurnsAlwaysFull == 1
\* cb.recentTurnCharLimit, cb.midTurnCharLimit, cb.olderTurnCharLimit
RecentTurnCharLimit == 6
MidTurnCharLimit == 4
OlderTurnCharLimit == 2

\* Object.values(TIERS), in order
TierOrder == <<"essential", "high", "medium", "low", "minimal">>
Tiers == {TierOrder[i] : i \in 1..Len(TierOrder)}
\* this.poolRatios, in percent
PoolRatiosPct ==
    [tier \in Tiers |->
        CASE tier = "essential" -> 30
          [] tier = "high" -> 25
          [] tier = "medium" -> 25
          [] tier = "low" -> 15
          [] tier = "minimal" -> 5]

ShortText == <<"a">>
LongText == <<"a", " ", "a", " ", "a", ".", "a", " ", "a">>
BudgetMsgs ==
    {[role |-> "system", content |-> ShortText],
     [role |-> "user", content |-> ShortText],
     [role |-> "user", content |-> LongText]}
BudgetLists == UNION {[1..n -> BudgetMsgs] : n \in 0..MaxBudgetMsgs}
\* the maxTokens argument (0: not given)
MaxTokensInputs == {0, 10, 40, 80}

\* text.split(/\s+/).filter(w => w.length > 0).length
WordCount(text) ==
    Cardinality({i \in 1..Len(text) :
                    text[i] # " " /\ (i = 1 \/ text[i - 1] = " ")})

\* (text.match(/[^a-zA-Z0-9\s]/g) || []).length
SpecialCount(text) == Cardinality({i \in 1..Len(text) : text[i] \notin {"a", " "}})

\* Math.ceil(words * 1.3 + specialChars * 0.5)
HeuristicEstimate(text) ==
    IF text = <<>> THEN 0
    ELSE (13 * WordCount(text) + 5 * SpecialCount(text) + 9) \div 10

\* TokenEstimator.estimate with no custom tokenizer
Estimate(text) == IF text = <<>> THEN 0 ELSE HeuristicEstimate(text)

Ellipsis == <<" ", "[", ".", ".", ".", "]">>

\* truncated.lastIndexOf('.') + 1 (0: none)
LastPeriod(text) ==
    LET at == {i \in 1..Len(text) : text[i] = "."}
    IN IF at = {} THEN 0 ELSE CHOOSE i \in at : \A j \in at : j <= i

TruncateToLimit(text, charLimit) ==
    IF text = <<>> \/ Len(text) <= charLimit THEN text
    ELSE LET truncated == SubSeq(text, 1, charLimit)
             breakPoint == LastPeriod(truncated) - 1
         IN IF 2 * breakPoint > charLimit
            THEN SubSeq(truncated, 1, breakPoint + 1) \o Ellipsis
            ELSE truncated \o Ellipsis

CharLimitForTier(tier) ==
    CASE tier = "essential" -> RecentTurnCharLimit
      [] tier = "high" -> RecentTurnCharLimit
      [] tier = "medium" -> MidTurnCharLimit
      [] tier = "low" -> OlderTurnCharLimit
      [] tier = "minimal" -> OlderTurnCharLimit \div 2
      [] OTHER -> OlderTurnCharLimit

\* index is the 0-based position of msg among total messages
ClassifyMessage(msg, index, total) ==
    LET distanceFromEnd == total - 1 - index
    IN IF msg.role = "system" THEN "essential"
       ELSE IF distanceFromEnd < RecentTurnsAlwaysFull * 2 THEN "essential"
       ELSE IF distanceFromEnd < RecentTurnsAlwaysFull * 4 THEN "medium"
       ELSE IF distanceFromEnd < RecentTurnsAlwaysFull * 8 THEN "low"
       ELSE "minimal"

AllocatePools(totalBudget) ==
    [tier \in Tiers |-> (totalBudget * PoolRatiosPct[tier]) \div 100]

\* A pool test that admits everything.
FitsAlways(poolUsed, tokens, pool) == TRUE

\* The pool test of optimize's inner loop.
Fits(poolUsed, tokens, pool) == poolUsed + tokens <= pool

\* classified.filter(c => c.tier === tier)
RECURSIVE GroupOf(_, _)
GroupOf(classified, tier) ==
    IF classified = <<>> THEN <<>>
    ELSE LET rest == GroupOf(Tail(classified), tier)
         IN IF Head(classified).tier = tier THEN <<Head(classified)>> \o rest ELSE rest

\* The inner loop of optimize over one tier's items: [used, admitted].
RECURSIVE AdmitTier(_, _, _, _, _)
AdmitTier(items, tier, pool, poolUsed, admitted) ==
    IF items = <<>> THEN [used |-> poolUsed, admitted |-> admitted]
    ELSE LET item == Head(items)
             truncated == TruncateToLimit(item.message.content, CharLimitForTier(tier))
             tokens == Estimate(truncated)
         IN IF Fits(poolUsed, tokens, pool)
            THEN AdmitTier(Tail(items), tier, pool, poolUsed + tokens,
                           Append(admitted,
                                  [role |-> item.message.role, content |-> truncated,
                                   tier |-> tier, originalIndex |-> item.originalIndex]))
            ELSE AdmitTier(Tail(items), tier, pool, poolUsed, admitted)

\* The outer loop of optimize over the tiers from position t on: the
\* admitted messages in push order, each tier's usage and totalTokens.
RECURSIVE AdmitTiers(_, _, _, _, _, _)
AdmitTiers(t, classified, pools, optimized, usage, totalTokens) ==
    IF t > Len(TierOrder)
    THEN [optimized |-> optimized, usage |-> usage, totalTokens |-> totalTokens]
    ELSE LET tier == TierOrder[t]
             r == AdmitTier(GroupOf(classified, tier), tier, pools[tier], 0, <<>>)
         IN AdmitTiers(t + 1, classified, pools, optimized \o r.admitted,
                       [usage EXCEPT ![tier] =
                           [allocated |-> pools[tier], used |-> r.used,
                            messages |-> Len(r.admitted)]],
                       totalTokens + r.used)

\* optimized.sort((a, b) => a._originalIndex - b._originalIndex)
RECURSIVE InsertByIndex(_, _)
InsertByIndex(sorted, item) ==
    IF sorted = <<>> THEN <<item>>
    ELSE IF item.originalIndex < Head(sorted).originalIndex THEN <<item>> \o sorted
    ELSE <<Head(sorted)>> \o InsertByIndex(Tail(sorted), item)

RECURSIVE SortByOriginalIndex(_)
SortByOriginalIndex(items) ==
    IF items = <<>> THEN <<>>
    ELSE InsertByIndex(SortByOriginalIndex(SubSeq(items, 1, Len(items) - 1)),
                       items[Len(items)])

EmptyReport ==
    [ceiling |-> 0, totalBudget |-> 0, totalUsed |-> 0, remaining |-> 0, pools |-> <<>>]

Optimize(messages, maxTokens) ==
    IF messages = <<>>
    THEN [set |-> TRUE, optimizedMessages |-> <<>>, tokenCount |-> 0,
          budgetReport |-> EmptyReport]
    ELSE LET ceiling == IF maxTokens # 0 THEN maxTokens ELSE DefaultMaxTokens
             totalBudget == (ceiling * BudgetRatioPct) \div 100
             pools == AllocatePools(totalBudget)
             classified ==
                 [i \in 1..Len(messages) |->
                     [message |-> messages[i],
                      tier |-> ClassifyMessage(messages[i], i - 1, Len(messages)),
                      originalIndex |-> i - 1]]
             r == AdmitTiers(1, classified, pools, <<>>,
                             [tier \in Tiers |-> [allocated |-> 0, used |-> 0, messages |-> 0]],
                             0)
             totalTokens == r.totalTokens
         IN [set |-> TRUE,
             optimizedMessages |-> SortByOriginalIndex(r.optimized),
             tokenCount |-> totalTokens,
             budgetReport |->
                 [ceiling |-> ceiling, totalBudget |-> totalBudget,
                  totalUsed |-> totalTokens, remaining |-> totalBudget - totalTokens,
                  pools |-> r.usage]]

InitBudget ==
    /\ ArchIdle
    /\ IdxIdle
    /\ FtsIdle
    /\ CmpIdle
    /\ SvcIdle
    /\ AncIdle
    /\ CovIdle
    /\ TopicsIdle
    /\ HooksIdle
    /\ StoIdle
    /\ MntIdle
    /\ TurnIdle
    /\ AgentsIdle
    /\ SrchIdle
    /\ bMessages \in BudgetLists
    /\ bResult = NoResult

\* One call optimize(messages, maxTokens).
OptimizeCall(maxTokens) ==
    /\ bResult = NoResult
    /\ bResult' = Optimize(bMessages, maxTokens)
    /\ UNCHANGED <<bMessages, otherThanBud>>

NextBudget == \E maxTokens \in MaxTokensInputs : OptimizeCall(maxTokens)

SpecBudget == InitBudget /\ [][NextBudget]_vars

(***************************************************************************)
(* Compactor (compactor.js), with the TokenEstimator and the ContextBudget *)
(* above. An element of a result is [role, content, src, copy]: src is the *)
(* position in the input of the message it was made from (0: none), copy   *)
(* tells that it is a new object and not the input's.                      *)
(***************************************************************************)
\* cc.fallbackMessages
FallbackMessages == 2
\* The length above which an assistant text is cut, in characters.
AssistantCharLimit == 6
\* How many tool messages, and how many assistant and user messages, the
\* task-aware strategy looks at.
RecentToolsKept == 15
RecentTurnsKept == 5
\* estimateMessages' overhead per message.
MessageOverhead == 4

\* A content with the marker '[tool_result]'.
ToolResultText == <<"[", "a", "_", "a", "]">>

\* The messages of a conversation: toolCalls is `m.tool_calls` being a
\* non-empty array.
CompactMsgs ==
    {[role |-> "system", content |-> ShortText, toolCalls |-> FALSE],
     [role |-> "user", content |-> ShortText, toolCalls |-> FALSE],
     [role |-> "user", content |-> LongText, toolCalls |-> FALSE],
     [role |-> "user", content |-> ToolResultText, toolCalls |-> FALSE],
     [role |-> "assistant", content |-> LongText, toolCalls |-> FALSE],
     [role |-> "tool", content |-> ShortText, toolCalls |-> FALSE]}

CompactLists == UNION {[1..n -> CompactMsgs] : n \in 0..MaxCompactMsgs}

\* continuityAnchors.format(anchors): '' without anchors, or the block.
AnchorBlocks == {<<>>, <<"[", "a", " ", "a", "]", " ", "a", ":", " ", "a">>}

RECURSIVE EstimateMessages(_)
\* TokenEstimator.estimateMessages.
EstimateMessages(msgs) ==
    IF msgs = <<>> THEN 0
    ELSE Estimate(Head(msgs).content) + MessageOverhead + EstimateMessages(Tail(msgs))

\* TokenEstimator.isOverBudget(messages, ratio): the ceiling is the
\* estimator's maxTokens.
IsOverBudget(msgs, ratioPct) ==
    EstimateMessages(msgs) * 100 > DefaultMaxTokens * ratioPct

\* _hasTaskContext.
HasTaskContext(messages) ==
    \E i \in 1..Len(messages) :
        messages[i].role \in {"tool", "function"} \/ messages[i].toolCalls

\* messages.find(m => m.role === role): its position, 0 when there is none.
FindRole(messages, role) ==
    LET at == {i \in 1..Len(messages) : messages[i].role = role}
    IN IF at = {} THEN 0 ELSE CHOOSE i \in at : \A j \in at : i <= j

RECURSIVE Ascending(_)
\* The numbers of a set, smallest first.
Ascending(set) ==
    IF set = {} THEN <<>>
    ELSE LET least == CHOOSE x \in set : \A y \in set : x <= y
         IN <<least>> \o Ascending(set \ {least})

\* messages.filter(test), as the positions of the messages kept.
PositionsWhere(messages, Test(_)) ==
    Ascending({i \in 1..Len(messages) : Test(messages[i])})

\* list.slice(-n).
LastOf(list, n) ==
    IF Len(list) <= n THEN list ELSE SubSeq(list, Len(list) - n + 1, Len(list))

\* The filter of step 3.
IsToolMessage(m) == m.role \in {"tool", "function"} \/ m.content = ToolResultText

IsAssistant(m) == m.role = "assistant"
IsUser(m) == m.role = "user"

\* The input's own message at position i.
Original(messages, i) ==
    [role |-> messages[i].role, content |-> messages[i].content, src |-> i, copy |-> FALSE]

\* compacted.includes(msg), msg being the input's message at position i.
Includes(compacted, i) ==
    \E k \in 1..Len(compacted) : compacted[k].src = i /\ ~compacted[k].copy

\* The assistant text as step 4 keeps it.
TruncateAssistant(text) ==
    IF Len(text) > AssistantCharLimit
    THEN SubSeq(text, 1, AssistantCharLimit) \o Ellipsis
    ELSE text

RECURSIVE KeepTools(_, _, _, _)
\* Step 3 over the positions at: [out, used].
KeepTools(messages, at, acc, budget) ==
    IF at = <<>> THEN acc
    ELSE LET i == Head(at)
             tokens == Estimate(messages[i].content)
         IN IF (acc.used + tokens) * 10 < budget * 7
            THEN KeepTools(messages, Tail(at),
                           [out |-> Append(acc.out, Original(messages, i)),
                            used |-> acc.used + tokens], budget)
            ELSE KeepTools(messages, Tail(at), acc, budget)

RECURSIVE KeepAssistant(_, _, _, _)
\* Step 4 over the positions at: what is kept is `{ ...msg, content:
\* truncated }`, a new object.
KeepAssistant(messages, at, acc, budget) ==
    IF at = <<>> THEN acc
    ELSE LET i == Head(at)
             truncated == TruncateAssistant(messages[i].content)
             tokens == Estimate(truncated)
         IN IF ~Includes(acc.out, i) /\ (acc.used + tokens) * 10 < budget * 9
            THEN KeepAssistant(messages, Tail(at),
                               [out |-> Append(acc.out,
                                               [role |-> messages[i].role,
                                                content |-> truncated,
                                                src |-> i, copy |-> TRUE]),
                                used |-> acc.used + tokens], budget)
            ELSE KeepAssistant(messages, Tail(at), acc, budget)

RECURSIVE KeepUsers(_, _, _, _)
\* Step 5 over the positions at.
KeepUsers(messages, at, acc, budget) ==
    IF at = <<>> THEN acc
    ELSE LET i == Head(at)
             tokens == Estimate(messages[i].content)
         IN IF ~Includes(acc.out, i) /\ acc.used + tokens < budget
            THEN KeepUsers(messages, Tail(at),
                           [out |-> Append(acc.out, Original(messages, i)),
                            used |-> acc.used + tokens], budget)
            ELSE KeepUsers(messages, Tail(at), acc, budget)

\* `indexMap.get(a) || 0`: the map's keys are the input's own objects, so a
\* copy is not found.
SortKey(e) == IF e.copy THEN 0 ELSE e.src - 1

RECURSIVE InsertByKey(_, _)
InsertByKey(sorted, e) ==
    IF sorted = <<>> THEN <<e>>
    ELSE IF SortKey(e) < SortKey(Head(sorted)) THEN <<e>> \o sorted
    ELSE <<Head(sorted)>> \o InsertByKey(Tail(sorted), e)

RECURSIVE SortByKey(_)
\* compacted.sort by the keys: stable.
SortByKey(list) ==
    IF list = <<>> THEN <<>>
    ELSE InsertByKey(SortByKey(SubSeq(list, 1, Len(list) - 1)), list[Len(list)])

\* _taskAwareStrategy(messages, maxTokens): its compactedMessages.
TaskAwareStrategy(messages, ceiling) ==
    LET budget == (ceiling * BudgetRatioPct) \div 100
        sys == FindRole(messages, "system")
        s1 == IF sys = 0 THEN [out |-> <<>>, used |-> 0]
              ELSE [out |-> <<Original(messages, sys)>>,
                    used |-> Estimate(messages[sys].content)]
        usr == FindRole(messages, "user")
        s2 == IF usr = 0 THEN s1
              ELSE [out |-> Append(s1.out, Original(messages, usr)),
                    used |-> s1.used + Estimate(messages[usr].content)]
        s3 == KeepTools(messages,
                        LastOf(PositionsWhere(messages, IsToolMessage), RecentToolsKept),
                        s2, budget)
        s4 == KeepAssistant(messages,
                            LastOf(PositionsWhere(messages, IsAssistant), RecentTurnsKept),
                            s3, budget)
        s5 == KeepUsers(messages,
                        LastOf(PositionsWhere(messages, IsUser), RecentTurnsKept),
                        s4, budget)
    IN SortByKey(s5.out)

\* The optimized messages of ContextBudget.optimize as result elements.
FromOptimized(optimized) ==
    [k \in 1..Len(optimized) |->
        [role |-> optimized[k].role, content |-> optimized[k].content,
         src |-> optimized[k].originalIndex + 1, copy |-> TRUE]]

\* _conversationalStrategy(messages, maxTokens): the anchor block goes to the
\* end of the first system message, or to a new one in front.
ConversationalStrategy(messages, ceiling, anchorBlock) ==
    LET compacted == FromOptimized(Optimize(messages, ceiling).optimizedMessages)
        systemIdx == FindRole(compacted, "system")
    IN IF anchorBlock = <<>> THEN compacted
       ELSE IF systemIdx # 0
            THEN [compacted EXCEPT ![systemIdx].content = @ \o <<" ", " ">> \o anchorBlock]
            ELSE <<[role |-> "system", content |-> anchorBlock, src |-> 0, copy |-> TRUE]>>
                 \o compacted

\* _fallbackStrategy(messages).
FallbackStrategy(messages) ==
    LET sys == FindRole(messages, "system")
        from == IF Len(messages) <= FallbackMessages THEN 1
                ELSE Len(messages) - FallbackMessages + 1
        recent == [k \in 1..(Len(messages) - from + 1) |-> Original(messages, from + k - 1)]
    IN IF sys = 0 THEN recent ELSE <<Original(messages, sys)>> \o recent

\* `this.tokenEstimator.isOverBudget(result.compactedMessages, 0.95)`.
StillOverBudget(compacted) == IsOverBudget(compacted, 95)

\* compact(messages, maxTokens): maxTokens 0 stands for an absent argument.
Compact(messages, maxTokens, anchorBlock) ==
    IF messages = <<>>
    THEN [set |-> TRUE, strategy |-> "none", compactedMessages |-> <<>>,
          first |-> "none", tried |-> <<>>]
    ELSE LET ceiling == IF maxTokens # 0 THEN maxTokens ELSE DefaultMaxTokens
             task == HasTaskContext(messages)
             tried == IF task THEN TaskAwareStrategy(messages, ceiling)
                      ELSE ConversationalStrategy(messages, ceiling, anchorBlock)
             first == IF task THEN "task-aware" ELSE "conversational"
         IN IF StillOverBudget(tried)
            THEN [set |-> TRUE, strategy |-> "fallback",
                  compactedMessages |-> FallbackStrategy(messages),
                  first |-> first, tried |-> tried]
            ELSE [set |-> TRUE, strategy |-> first, compactedMessages |-> tried,
                  first |-> first, tried |-> tried]

InitCompact ==
    /\ ArchIdle
    /\ IdxIdle
    /\ FtsIdle
    /\ SvcIdle
    /\ AncIdle
    /\ CovIdle
    /\ TopicsIdle
    /\ HooksIdle
    /\ StoIdle
    /\ MntIdle
    /\ TurnIdle
    /\ AgentsIdle
    /\ BudIdle
    /\ SrchIdle
    /\ kMessages \in CompactLists
    /\ kResult = [set |-> FALSE]

\* One call compact(messages, maxTokens), the anchors instance holding what
\* formats to anchorBlock.
CompactCall(maxTokens, anchorBlock) ==
    /\ ~kResult.set
    /\ kResult' = Compact(kMessages, maxTokens, anchorBlock)
    /\ UNCHANGED <<kMessages, otherThanCmp>>

NextCompact ==
    \E maxTokens \in MaxTokensInputs, anchorBlock \in AnchorBlocks :
        CompactCall(maxTokens, anchorBlock)

SpecCompact == InitCompact /\ [][NextCompact]_vars

(***************************************************************************)
(* Searcher (the semantic-only searcher.js and the hybrid searcher.js)      *)
(*                                                                          *)
(* Scores are exact fractions [num, den] with den > 0.  Times are in days;  *)
(* distances, recency boosts, the factor 1 + recencyBoost and composite     *)
(* scores are in thousandths.                                               *)
(***************************************************************************)
\* config.search.rrfK
RrfK == 60

Frac(n, d) == [num |-> n, den |-> d]
Zero == Frac(0, 1)
FracAdd(a, b) == Frac(a.num * b.den + b.num * a.den, a.den * b.den)
FracEq(a, b) == a.num * b.den = b.num * a.den
FracLess(a, b) == a.num * b.den < b.num * a.den

DocIds == {"A", "B", "C", "D"}
\* The exchanges rows of the model: created_at is the day indexDay wrote the
\* row (0: no created_at), date the day of the conversation.
DocRows ==
    [id \in DocIds |->
        LET day == CASE id = "A" -> 700 [] id = "B" -> 686 [] id = "C" -> 100 [] id = "D" -> 1
        IN [date |-> day, exchangeIndex |-> 0, createdAt |-> day]]
\* Date.now() of the search: the day the newest row was written.
SearchNow == DocRows["A"].createdAt

\* The fallback (noon of date plus exchangeIndex minutes) stays within the day.
ParseTimestamp(date, exchangeIndex, createdAt) ==
    IF createdAt # 0 THEN createdAt ELSE date

\* Math.exp(-ageDays / 14) * 0.15 as it enters distance - recencyBoost and
\* 1 + recencyBoost in double arithmetic: 0.15 at age 0, 0.15 / e = 0.055 at
\* age 14; from 488 days on the boost is below 2^-53, so that 1 + recencyBoost
\* is the double 1 and distance - recencyBoost is the double distance.
RecencyBoost(ageDays) ==
    CASE ageDays = 0 -> 150
      [] ageDays = 14 -> 55
      [] ageDays >= 488 -> 0

AgeDays(row) == SearchNow - ParseTimestamp(row.date, row.exchangeIndex, row.createdAt)

\* The limit argument of search.
Limits == {1, 2}
\* Math.min(limit * 2, 60)
FetchLimit(limit) == IF limit * 2 < 60 THEN limit * 2 ELSE 60

\* v.distance of a vec_exchanges row.
Distances == {500, 1100}

InjSeqs(S, n) == {f \in [1..n -> S] : \A i, j \in 1..n : f[i] = f[j] => i = j}

\* What the vec_exchanges query can return: distinct rows, ORDER BY v.distance ASC.
SemanticRows ==
    UNION {{[i \in 1..n |-> [id |-> ids[i], distance |-> ds[i], hasDistance |-> TRUE]] :
               ids \in InjSeqs(DocIds, n),
               ds \in {d \in [1..n -> Distances] : \A i, j \in 1..n : i < j => d[i] <= d[j]}} :
           n \in 0..MaxCandidates}

\* What the fts_exchanges query can return: distinct rows, distance: null.
KeywordRows ==
    UNION {{[i \in 1..n |-> [id |-> ids[i], distance |-> 0, hasDistance |-> FALSE]] :
               ids \in InjSeqs(DocIds, n)} :
           n \in 0..MaxCandidates}

\* 1 / (k + rank) without the + 1.
RankTermNoOffset(k, rank) == Frac(1, k + rank)

\* 1 / (k + rank + 1)
RankTerm(k, rank) == Frac(1, k + rank + 1)

\* scores.get(id) || 0
ScoreOf(scores, id) ==
    IF \E i \in 1..Len(scores) : scores[i].id = id
    THEN scores[CHOOSE i \in 1..Len(scores) : scores[i].id = id].score
    ELSE Zero

\* scores.set(id, v): a Map keeps the position of a key it already holds.
SetScore(scores, id, v) ==
    IF \E i \in 1..Len(scores) : scores[i].id = id
    THEN LET i == CHOOSE j \in 1..Len(scores) : scores[j].id = id
         IN [scores EXCEPT ![i] = [id |-> id, score |-> v]]
    ELSE Append(scores, [id |-> id, score |-> v])

\* The inner loop of _reciprocalRankFusion over one list, from rank on.
RECURSIVE FuseList(_, _, _, _)
FuseList(scores, list, rank, k) ==
    IF rank >= Len(list) THEN scores
    ELSE LET id == list[rank + 1].id
         IN FuseList(SetScore(scores, id, FracAdd(ScoreOf(scores, id), RankTerm(k, rank))),
                     list, rank + 1, k)

RECURSIVE FuseLists(_, _, _)
FuseLists(scores, rankedLists, k) ==
    IF rankedLists = <<>> THEN scores
    ELSE FuseLists(FuseList(scores, Head(rankedLists), 0, k), Tail(rankedLists), k)

ReciprocalRankFusion(rankedLists, k) == FuseLists(<<>>, rankedLists, k)

\* A rejected promise instead of the error result.
SearchRejects(message) ==
    [kind |-> "rejected", exchanges |-> <<>>, distances |-> <<>>, error |-> message]

\* return { exchanges: [], distances: [], error }
SearchError(message) ==
    [kind |-> "resolved", exchanges |-> <<>>, distances |-> <<>>, error |-> message]

\* fused.sort((a, b) => b.compositeScore - a.compositeScore): stable, descending.
RECURSIVE InsertDescending(_, _)
InsertDescending(sorted, item) ==
    IF sorted = <<>> THEN <<item>>
    ELSE IF FracLess(Head(sorted).compositeScore, item.compositeScore)
         THEN <<item>> \o sorted
         ELSE <<Head(sorted)>> \o InsertDescending(Tail(sorted), item)

RECURSIVE SortDescending(_)
SortDescending(items) ==
    IF items = <<>> THEN <<>>
    ELSE InsertDescending(SortDescending(SubSeq(items, 1, Len(items) - 1)), items[Len(items)])

\* reranked.sort((a, b) => a.compositeScore - b.compositeScore): stable, ascending.
RECURSIVE InsertAscending(_, _)
InsertAscending(sorted, item) ==
    IF sorted = <<>> THEN <<item>>
    ELSE IF FracLess(item.compositeScore, Head(sorted).compositeScore)
         THEN <<item>> \o sorted
         ELSE <<Head(sorted)>> \o InsertAscending(Tail(sorted), item)

RECURSIVE SortAscending(_)
SortAscending(items) ==
    IF items = <<>> THEN <<>>
    ELSE InsertAscending(SortAscending(SubSeq(items, 1, Len(items) - 1)), items[Len(items)])

SearchResult(top) ==
    [kind |-> "resolved", exchanges |-> top,
     distances |-> [i \in 1..Len(top) |-> top[i].distance], error |-> "none"]

\* exchangeMap.get(id): the semantic row of an id wins over its keyword row.
ExchangeOf(id, semanticResults, keywordResults) ==
    IF \E i \in 1..Len(semanticResults) : semanticResults[i].id = id
    THEN semanticResults[CHOOSE i \in 1..Len(semanticResults) : semanticResults[i].id = id]
    ELSE keywordResults[CHOOSE i \in 1..Len(keywordResults) : keywordResults[i].id = id]

\* The hybrid search from the fusion on.
HybridFuse(semanticResults, keywordResults, limit) ==
    LET rrfScores == ReciprocalRankFusion(<<semanticResults, keywordResults>>, RrfK)
        fused ==
            [i \in 1..Len(rrfScores) |->
                LET ex == ExchangeOf(rrfScores[i].id, semanticResults, keywordResults)
                    rrfScore == rrfScores[i].score
                    recencyBoost == RecencyBoost(AgeDays(DocRows[ex.id]))
                IN [id |-> ex.id,
                    distance |-> IF ex.hasDistance THEN ex.distance ELSE 1000,
                    rrfScore |-> rrfScore,
                    recencyBoost |-> recencyBoost,
                    compositeScore |-> Frac(rrfScore.num * (1000 + recencyBoost),
                                            rrfScore.den)]]
    IN SearchResult(Take(SortDescending(fused), limit))

\* The semantic-only search from the re-ranking on.
Rerank(results, limit) ==
    LET reranked ==
            [i \in 1..Len(results) |->
                LET recencyBoost == RecencyBoost(AgeDays(DocRows[results[i].id]))
                IN [id |-> results[i].id,
                    distance |-> results[i].distance,
                    rrfScore |-> Zero,
                    recencyBoost |-> recencyBoost,
                    compositeScore |-> Frac(results[i].distance - recencyBoost, 1)]]
    IN SearchResult(Take(SortAscending(reranked), limit))

\* The states of _initialized and _embeddingFn that initialize() can leave.
EmbeddingStates ==
    {[initialized |-> FALSE, embeddingFn |-> "null"],
     [initialized |-> TRUE, embeddingFn |-> "ready"],
     [initialized |-> FALSE, embeddingFn |-> "broken"]}

\* A Searcher after construction, its initialize() either not yet called or
\* already called by ensureStorage.
InitSearch ==
    /\ ArchIdle
    /\ IdxIdle
    /\ FtsIdle
    /\ CmpIdle
    /\ SvcIdle
    /\ AncIdle
    /\ CovIdle
    /\ TopicsIdle
    /\ HooksIdle
    /\ StoIdle
    /\ MntIdle
    /\ TurnIdle
    /\ AgentsIdle
    /\ BudIdle
    /\ sVariant \in SearcherVariants
    /\ sDb \in BOOLEAN
    /\ \E e \in EmbeddingStates :
          /\ sInitialized = e.initialized
          /\ sEmbeddingFn = e.embeddingFn
    /\ sFts5Checked = FALSE
    /\ sFts5Available = FALSE
    /\ spc = "idle"
    /\ sLimit = 0
    /\ sSemantic = <<>>
    /\ sKeyword = <<>>
    /\ sScores = <<>>
    /\ sFailed = {}
    /\ sOut = NoOut

\* search from `if (!this._embeddingFn)` to the await of the query embedding;
\* ftsTable is what _checkFts5's query finds: "present", "absent" or "throws".
BeforeEmbedding(embeddingFn, ftsTable) ==
    IF embeddingFn = "null"
    THEN /\ sOut' = SearchError("Embedding model not available")
         /\ sFailed' = {"noEmbeddingFn"}
         /\ spc' = "settled"
         /\ UNCHANGED <<sFts5Checked, sFts5Available>>
    ELSE /\ spc' = "embed"
         /\ IF sVariant = "hybrid" /\ ~sFts5Checked
            THEN /\ sFts5Checked' = TRUE
                 /\ sFts5Available' = (ftsTable = "present")
            ELSE UNCHANGED <<sFts5Checked, sFts5Available>>
         /\ UNCHANGED <<sOut, sFailed>>

FtsTables == {"present", "absent", "throws"}

\* search(query, limit) up to its first await or return.
SearchCall(limit, ftsTable) ==
    /\ spc = "idle"
    /\ sLimit' = limit
    /\ IF ~sDb
       THEN /\ sOut' = SearchError("Database not available")
            /\ sFailed' = {"noDb"}
            /\ spc' = "settled"
            /\ UNCHANGED <<sFts5Checked, sFts5Available>>
       ELSE IF ~sInitialized
       THEN /\ spc' = "initialize"
            /\ UNCHANGED <<sOut, sFailed, sFts5Checked, sFts5Available>>
       ELSE BeforeEmbedding(sEmbeddingFn, ftsTable)
    /\ UNCHANGED <<sVariant, sDb, sInitialized, sEmbeddingFn, sSemantic, sKeyword, sScores,
                   otherThanSrch>>

\* await this.initialize() settles (it never rejects), and search goes on.
InitializeSettles(e, ftsTable) ==
    /\ spc = "initialize"
    /\ sInitialized' = e.initialized
    /\ sEmbeddingFn' = e.embeddingFn
    /\ BeforeEmbedding(e.embeddingFn, ftsTable)
    /\ UNCHANGED <<sVariant, sDb, sLimit, sSemantic, sKeyword, sScores, otherThanSrch>>

\* The catch of search's try block.
Caught(failure, message) ==
    /\ sOut' = SearchError(message)
    /\ sFailed' = {failure}
    /\ spc' = "settled"
    /\ UNCHANGED <<sSemantic, sKeyword, sScores>>

\* this._embeddingFn.generate([query]) rejects.
EmbedThrows ==
    /\ spc = "embed"
    /\ Caught("embedThrew", "embedding failed")
    /\ UNCHANGED <<sVariant, sDb, sInitialized, sEmbeddingFn, sFts5Checked, sFts5Available,
                   sLimit, otherThanSrch>>

\* The vec_exchanges query throws.
VecQueryThrows ==
    /\ spc = "embed"
    /\ Caught("vecQueryThrew", "query failed")
    /\ UNCHANGED <<sVariant, sDb, sInitialized, sEmbeddingFn, sFts5Checked, sFts5Available,
                   sLimit, otherThanSrch>>

FtsOutcomes == {"noTerms", "throws", "rows"}

\* The rest of the search once semanticResults is known: _ftsSearch (hybrid
\* with the FTS5 table only), fusion or re-ranking, sort and slice.
Finish(semanticResults, ftsOutcome, keyword, failed) ==
    LET keywordResults ==
            IF sVariant = "hybrid" /\ sFts5Available /\ ftsOutcome = "rows"
            THEN keyword ELSE <<>>
        ftsFailed ==
            IF sVariant = "hybrid" /\ sFts5Available /\ ftsOutcome = "throws"
            THEN {"ftsQueryThrew"} ELSE {}
    IN /\ Len(semanticResults) <= FetchLimit(sLimit)
       /\ Len(keyword) <= FetchLimit(sLimit)
       /\ sSemantic' = semanticResults
       /\ sKeyword' = keywordResults
       /\ sFailed' = failed \cup ftsFailed
       /\ spc' = "settled"
       /\ IF sVariant = "hybrid"
          THEN /\ sScores' = ReciprocalRankFusion(<<semanticResults, keywordResults>>, RrfK)
               /\ sOut' = HybridFuse(semanticResults, keywordResults, sLimit)
          ELSE /\ sScores' = <<>>
               /\ sOut' = Rerank(semanticResults, sLimit)

\* The rows _ftsSearch can have: it runs its query only in the hybrid searcher
\* with the FTS5 table, and has rows only if the query returns.
KeywordChoices(ftsOutcome) ==
    IF sVariant = "hybrid" /\ sFts5Available /\ ftsOutcome = "rows" THEN KeywordRows ELSE {<<>>}

\* generate([query]) resolves without a vector for the query.
EmbedEmpty ==
    /\ spc = "embed"
    /\ IF sVariant = "hybrid"
       THEN \E ftsOutcome \in FtsOutcomes : \E keyword \in KeywordChoices(ftsOutcome) :
                Finish(<<>>, ftsOutcome, keyword, {"noEmbedding"})
       ELSE Caught("noEmbedding", "Failed to generate query embedding")
    /\ UNCHANGED <<sVariant, sDb, sInitialized, sEmbeddingFn, sFts5Checked, sFts5Available,
                   sLimit, otherThanSrch>>

\* The embedding and the vec_exchanges query succeed.
QueriesReturn ==
    /\ spc = "embed"
    /\ \E semantic \in SemanticRows, ftsOutcome \in FtsOutcomes :
          \E keyword \in KeywordChoices(ftsOutcome) :
              Finish(semantic, ftsOutcome, keyword, {})
    /\ UNCHANGED <<sVariant, sDb, sInitialized, sEmbeddingFn, sFts5Checked, sFts5Available,
                   sLimit, otherThanSrch>>

NextSearch ==
    \/ \E limit \in Limits, ftsTable \in FtsTables : SearchCall(limit, ftsTable)
    \/ \E e \in EmbeddingStates, ftsTable \in FtsTables : InitializeSettles(e, ftsTable)
    \/ EmbedThrows
    \/ VecQueryThrows
    \/ EmbedEmpty
    \/ QueriesReturn

SpecSearch == InitSearch /\ [][NextSearch]_vars

(***************************************************************************)
(* The hybrid Searcher's _ftsSearch and _sanitizeFtsQuery                   *)
(*                                                                          *)
(* A query is a sequence of characters: "a", "O" and "R" are word           *)
(* characters, "*" is an FTS5 special character, "." is punctuation.        *)
(***************************************************************************)
QueryChars == {"a", "O", "R", " ", "*", "."}
Queries == UNION {[1..n -> QueryChars] : n \in 0..MaxQueryLen}

\* \w of the regular expressions.
WordChar(c) == c \in {"a", "O", "R"}

\* .replace(/[*"^(){}[\]:]/g, '')
RemoveSpecial(q) == SelectSeq(q, LAMBDA c : c # "*")

\* \b before position i and after position j of q.
BoundaryAt(q, i, j) ==
    /\ (i = 1 \/ ~WordChar(q[i - 1]))
    /\ (j = Len(q) \/ ~WordChar(q[j + 1]))

RECURSIVE RemoveOperatorsFrom(_, _)
\* .replace(/\b(AND|OR|NOT|NEAR)\b/gi, '') from position i on: of the four
\* operators the characters of the model spell OR only.
RemoveOperatorsFrom(q, i) ==
    IF i > Len(q) THEN <<>>
    ELSE IF i < Len(q) /\ q[i] = "O" /\ q[i + 1] = "R" /\ BoundaryAt(q, i, i + 1)
    THEN RemoveOperatorsFrom(q, i + 2)
    ELSE <<q[i]>> \o RemoveOperatorsFrom(q, i + 1)

\* .replace(/[.,!?;]/g, ' ')
PunctuationToSpaces(q) == [i \in 1..Len(q) |-> IF q[i] = "." THEN " " ELSE q[i]]

RECURSIVE SplitWords(_, _)
\* .replace(/\s+/g, ' ').trim() and cleaned.split(' '): the maximal runs of
\* characters other than the space (cur is the run being read); the one
\* empty string that splitting '' gives has length 0 and is written as no
\* word, the filter drops it anyway.
SplitWords(q, cur) ==
    IF q = <<>> THEN (IF cur = <<>> THEN <<>> ELSE <<cur>>)
    ELSE IF Head(q) = " "
    THEN (IF cur = <<>> THEN <<>> ELSE <<cur>>) \o SplitWords(Tail(q), <<>>)
    ELSE SplitWords(Tail(q), Append(cur, Head(q)))

\* .filter(w => w.length >= 2)
KeepsWord(w) == Len(w) >= 2

\* const words of _sanitizeFtsQuery.
SanitizedWords(query) ==
    SelectSeq(SplitWords(PunctuationToSpaces(RemoveOperatorsFrom(RemoveSpecial(query), 1)),
                         <<>>),
              KeepsWord)

\* _sanitizeFtsQuery: '' when no word is left, else the words, each in
\* double quotes, joined by spaces.
SanitizeFtsQuery(query) ==
    LET words == SanitizedWords(query)
    IN [i \in 1..Len(words) |-> <<"\"">> \o words[i] \o <<"\"">>]

\* A variant of _ftsSearch without `if (!ftsQuery) return []`.
FtsQueryRunsAlways(ftsQuery) == TRUE

\* `if (!ftsQuery) return []` of _ftsSearch: the MATCH query runs with a
\* sanitized query that is not empty.
FtsQueryRuns(ftsQuery) == ftsQuery # <<>>

\* The outcomes of the MATCH query when it runs.
MatchOutcomes == {"throws", "rows"}
\* The limit argument of the searches looked at here.
FtsLimits == {1}

\* A hybrid Searcher that is initialised and has checked for the FTS5 table.
InitFts ==
    /\ ArchIdle
    /\ IdxIdle
    /\ FtsIdle
    /\ CmpIdle
    /\ SvcIdle
    /\ AncIdle
    /\ CovIdle
    /\ TopicsIdle
    /\ HooksIdle
    /\ StoIdle
    /\ MntIdle
    /\ TurnIdle
    /\ AgentsIdle
    /\ BudIdle
    /\ sVariant = "hybrid"
    /\ sDb = TRUE
    /\ sInitialized = TRUE
    /\ sEmbeddingFn = "ready"
    /\ sFts5Checked = TRUE
    /\ sFts5Available \in BOOLEAN
    /\ spc = "idle"
    /\ sLimit = 0
    /\ sSemantic = <<>>
    /\ sKeyword = <<>>
    /\ sScores = <<>>
    /\ sFailed = {}
    /\ sOut = NoOut

\* search(query, limit) of the hybrid Searcher from its call to its return,
\* the embedding and the vec_exchanges query succeeding: _ftsSearch is called
\* when the FTS5 table is there, and runs its MATCH query (which throws, and
\* the catch gives [], or returns `keyword`) unless the sanitized query is
\* empty; then fusion, sort and slice.
HybridSearch(query, limit, semantic, outcome, keyword) ==
    /\ spc = "idle"
    /\ Len(semantic) <= FetchLimit(limit)
    /\ Len(keyword) <= FetchLimit(limit)
    /\ LET runs == sFts5Available /\ FtsQueryRuns(SanitizeFtsQuery(query))
           keywordResults == IF runs /\ outcome = "rows" THEN keyword ELSE <<>>
       IN /\ keyword = keywordResults
          /\ (~runs => outcome = "rows")
          /\ qQuery' = query
          /\ qRan' = runs
          /\ sLimit' = limit
          /\ sSemantic' = semantic
          /\ sKeyword' = keywordResults
          /\ sFailed' = IF runs /\ outcome = "throws" THEN {"ftsQueryThrew"} ELSE {}
          /\ sScores' = ReciprocalRankFusion(<<semantic, keywordResults>>, RrfK)
          /\ sOut' = HybridFuse(semantic, keywordResults, limit)
          /\ spc' = "settled"
    /\ UNCHANGED <<sVariant, sDb, sInitialized, sEmbeddingFn, sFts5Checked, sFts5Available,
                   archVars, idxVars, stoVars, mntVars, turnVars, agVars, budVars, hookVars,
                   topicVars, covVars, ancVars, svcVars, cmpVars>>

\* LIMIT ? of the two queries: at most fetchLimit rows.
RowsWithin(rows, limit) == {r \in rows : Len(r) <= FetchLimit(limit)}

\* One search is made.
SearchOnce ==
    /\ spc = "idle"
    /\ \E query \in Queries, limit \in FtsLimits :
          \E semantic \in RowsWithin(SemanticRows, limit), outcome \in MatchOutcomes,
             keyword \in RowsWithin(KeywordRows, limit) :
              HybridSearch(query, limit, semantic, outcome, keyword)

NextFts == SearchOnce

SpecFts == InitFts /\ [][NextFts]_vars

\* The ranking the semantic list alone produces: every returned exchange is
\* a row of the semantic list, each id has the score of its semantic rank,
\* and the result is the fusion of the semantic list with no keyword list.
SemanticRankingOnly ==
    /\ sKeyword = <<>>
    /\ \A i \in 1..Len(sOut.exchanges) :
          \E r \in 1..Len(sSemantic) :
              /\ sSemantic[r].id = sOut.exchanges[i].id
              /\ FracEq(sOut.exchanges[i].rrfScore, Frac(1, RrfK + r))
    /\ sOut = HybridFuse(sSemantic, <<>>, sLimit)

\* C39 as stated: in the hybrid search, when the sanitized query has fewer
\* than 2 tokens, no full-text query is run against fts_exchanges and the
\* ranking is the one the semantic list alone produces.
C39_FewerThanTwoTokensSkipFts ==
    (spc = "settled" /\ Len(SanitizedWords(qQuery)) < 2) => (~qRan /\ SemanticRankingOnly)

\* C39, amended: in the hybrid search, when the sanitized query has no
\* token (no word of at least 2 characters is left), no full-text query is
\* run against fts_exchanges and the ranking is the one the semantic list
\* alone produces.
C39_NoTokenSkipsFts ==
    (spc = "settled" /\ Len(SanitizedWords(qQuery)) = 0) => (~qRan /\ SemanticRankingOnly)

\* A search on a Searcher with the FTS5 table whose query has characters but
\* no word of 2 characters has returned two semantic rows' best.
C39_Witness ==
    /\ spc = "settled"
    /\ sFts5Available
    /\ qQuery # <<>>
    /\ Len(SanitizedWords(qQuery)) = 0
    /\ Len(sSemantic) = 2
    /\ Len(sOut.exchanges) = 1

(***************************************************************************)
(* Claims                                                                   *)
(***************************************************************************)

\* C1: archiving the same message list M twice in a row leaves the day files
\* exactly as archiving it once did (any roles, with or without timestamps).
\* Under SpecStream every call archives the one stream M, so at the second
\* and later calls filesBefore holds what the call before left.
C1_ArchiveIdempotent == calls >= 2 => files = filesBefore

\* C2: no day file holds two messages with the same (timestamp, sender),
\* after any sequence of archive calls from an empty archive directory, also
\* when one call's input repeats a (timestamp, sender) pair.
C2_DedupUnique ==
    \A d \in Dates : \A i, j \in 1..Len(files[d]) :
        i # j => DedupKey(files[d][i]) # DedupKey(files[d][j])

\* C2's case: the latest of two calls was given a list that repeats a
\* (timestamp, sender) pair and wrote a day file that already held messages.
C2_Witness ==
    /\ calls = 2
    /\ inputRepeats
    /\ wrote
    /\ \E d \in Dates : Len(files[d]) >= 2

\* C9: after any sequence of indexDay calls (re-indexing and failed
\* embeddings included) the ids of exchanges, of vec_exchanges and of
\* fts_exchanges are the same set, one row per id in each table (the
\* primary keys allow no more than one).
C9_ThreeTablesAgree ==
    /\ DOMAIN db.exchanges = db.vec
    /\ db.vec = db.fts

\* The ids an indexDay call writes when nothing is skipped.
IdsOfCall(c) == {ExchangeId(idate[c], i) : i \in 0..(Len(ipairs[c]) - 1)}

\* C10: however two indexDay calls on one date interleave at their awaits,
\* no write fails on a duplicate key, no id has an exchanges row without a
\* vec_exchanges row or the reverse, and when the calls have finished and
\* no exchange was skipped every exchange id has its row in both tables.
C10_ConcurrentIndexDay ==
    /\ ~dupKeyFailed
    /\ DOMAIN db.exchanges = db.vec
    /\ \A c \in IdxCalls :
          (ipc[c] = "done" /\ ~skipped) =>
              (IdsOfCall(c) \subseteq DOMAIN db.exchanges /\ IdsOfCall(c) \subseteq db.vec)

\* C10's case: two calls on the same date ran at the same time, both have
\* finished, each wrote two exchanges and none was skipped.
C10_Witness ==
    /\ overlap
    /\ \A c \in IdxCalls : ipc[c] = "done" /\ Len(ipairs[c]) = 2
    /\ idate[1] = idate[2]
    /\ ~skipped
    /\ Cardinality(db.vec) = 2

\* C4: on one agent at most one storage initialisation is in progress at a
\* time, a caller that arrived while one was in progress has not returned
\* before it finished, and no Indexer or Searcher is constructed once
\* storageReady is true.
C4_StorageInitGuarded ==
    /\ Cardinality(InProgress) <= 1
    /\ \A c \in Callers :
          (epc[c] = "done" /\ eprom[c] # 0) => initpc[eprom[c]] = "settled"
    /\ ~builtWhileReady

\* C4's case: one caller started the init, another arrived while it was in
\* progress and awaited it, and both have returned with storage ready.
C4_Witness ==
    /\ storageReady
    /\ \E c, w \in Callers :
          /\ c # w
          /\ w \in ewaited /\ c \notin ewaited
          /\ epc[c] = "done" /\ epc[w] = "done"
          /\ eprom[c] = eprom[w] /\ eprom[c] # 0

\* C5: at most one execute() run of a MaintenanceService is in progress at
\* any time.
C5_OneRunAtATime == Cardinality(RunsInProgress) <= 1

\* The exchanges of a list are in non-decreasing (date, exchangeIndex) order.
Chronological(exchanges) ==
    \A i, j \in 1..Len(exchanges) :
        i < j => \/ exchanges[i].date < exchanges[j].date
                 \/ /\ exchanges[i].date = exchanges[j].date
                    /\ exchanges[i].exchangeIndex <= exchanges[j].exchangeIndex

\* C6: before_agent_start never throws or rejects to the host: whatever the
\* event, the context, the outcome of the storage initialisation and of the
\* search, it resolves to an object whose prependContext is a string.
C6_BeforeAgentStartResolves ==
    ret.handler = "before_agent_start" =>
        /\ ret.kind = "resolved"
        /\ ret.prependContext \in Seq(LineTokens)

\* C6's case: a call whose body threw has resolved to an empty prependContext.
C6_Witness ==
    /\ ret.handler = "before_agent_start"
    /\ ret.kind = "resolved"
    /\ ret.prependContext = <<>>

C8_PersistChronological ==
    (ret.handler = "tool_result_persist" /\ ret.kind = "message") =>
        Chronological(ret.shown)

\* C3: a hook event or gateway call that carries agent id A leaves the
\* in-memory state and the files of every other agent B unchanged.
C3_AgentIsolation ==
    [][\A B \in AgentKeys :
          B # KeyOf(opAgent') =>
              /\ agentStates'[B] = agentStates[B]
              /\ fs'[DataDirOf(B)] = fs[DataDirOf(B)]]_vars

RECURSIVE FlattenExchanges(_)
\* The messages of a list of exchanges, each exchange's user before its agent.
FlattenExchanges(exchanges) ==
    IF exchanges = <<>> THEN <<>>
    ELSE LET e == Head(exchanges)
         IN (IF e.user # NoMsg THEN <<e.user>> ELSE <<>>)
            \o (IF e.agent # NoMsg THEN <<e.agent>> ELSE <<>>)
            \o FlattenExchanges(Tail(exchanges))

\* The places of a list where a user message is immediately followed by an
\* agent message.
AdjacentPairs(messages) ==
    {i \in 1..(Len(messages) - 1) :
        messages[i].sender = "user" /\ messages[i + 1].sender = "agent"}

\* C11: _pairExchanges puts every message in exactly one exchange, in input
\* order; the exchanges with both sides are exactly the user messages
\* immediately followed by an agent message, every other message is an
\* exchange with its other side empty, and no exchange is empty.
C11_PairingExact ==
    \A c \in IdxCalls :
        ipc[c] # "idle" =>
            /\ FlattenExchanges(ipairs[c]) = imsgs[c]
            /\ Len(ipairs[c]) = Len(imsgs[c]) - Cardinality(AdjacentPairs(imsgs[c]))
            /\ \A i \in 1..Len(ipairs[c]) :
                  /\ ipairs[c][i].user # NoMsg \/ ipairs[c][i].agent # NoMsg
                  /\ ipairs[c][i].user # NoMsg => ipairs[c][i].user.sender = "user"
                  /\ ipairs[c][i].agent # NoMsg => ipairs[c][i].agent.sender = "agent"

\* C11's case: a list that has a user/agent pair and a message left on its
\* own has been paired.
C11_Witness ==
    \E c \in IdxCalls :
        /\ ipc[c] # "idle"
        /\ Len(imsgs[c]) = 3
        /\ Len(ipairs[c]) = 2
        /\ \E i \in 1..2 : ipairs[c][i].user # NoMsg /\ ipairs[c][i].agent # NoMsg


\* C12: ContextBudget.optimize reports, for every tier pool, used no larger
\* than allocated, and a totalUsed that is the sum of the token estimates of
\* the admitted (truncated) messages and is no larger than
\* totalBudget = floor(ceiling * budgetRatio); the pool ratios sum to 1.
C12_BudgetRespected ==
    bResult.set =>
        LET report == bResult.budgetReport
        IN /\ \A tier \in DOMAIN report.pools :
                  report.pools[tier].used <= report.pools[tier].allocated
           /\ report.totalUsed = SumSeq([i \in 1..Len(bResult.optimizedMessages) |->
                                           Estimate(bResult.optimizedMessages[i].content)])
           /\ report.totalUsed <= report.totalBudget
           /\ bMessages # <<>> =>
                  report.totalBudget = (report.ceiling * BudgetRatioPct) \div 100

\* A call that left a message out for lack of pool space, admitted messages
\* in two tiers and admitted a truncated one.
C12_Witness ==
    /\ bResult.set
    /\ Len(bResult.optimizedMessages) < Len(bMessages)
    /\ \E i, j \in 1..Len(bResult.optimizedMessages) :
          /\ bResult.optimizedMessages[i].tier # bResult.optimizedMessages[j].tier
          /\ bResult.optimizedMessages[i].content \notin {ShortText, LongText}

\* C13: however far the message list exceeds the budget, the output of
\* ContextBudget.optimize contains every system message and the last
\* 2 * recentTurnsAlwaysFull messages.
C13_EssentialKept ==
    bResult.set =>
        \A i \in 1..Len(bMessages) :
            (bMessages[i].role = "system" \/ Len(bMessages) - i < 2 * RecentTurnsAlwaysFull)
                => \E j \in 1..Len(bResult.optimizedMessages) :
                       bResult.optimizedMessages[j].originalIndex = i - 1

\* The ids of a list of rows, in order.
IdsOf(rows) == [i \in 1..Len(rows) |-> rows[i].id]

\* 1 / (k + r + 1) for the 0-based rank r of id in rows, 0 if id is not in rows.
Contribution(rows, id, k) ==
    IF \E i \in 1..Len(rows) : rows[i].id = id
    THEN Frac(1, k + (CHOOSE i \in 1..Len(rows) : rows[i].id = id))
    ELSE Zero

\* C14: _reciprocalRankFusion gives each document of the ranked lists the
\* sum, over the lists that contain it, of 1 / (k + r + 1), r its 0-based
\* rank in the list, and scores no other document; for k = 60 and the lists
\* [A, B, C] and [B, D] the scores are A = 1/61, B = 1/62 + 1/61, C = 1/63 and
\* D = 1/62, so that B > A > D > C.
C14_RrfScores ==
    (sVariant = "hybrid" /\ spc = "settled" /\ sOut.error = "none") =>
        /\ {sScores[i].id : i \in 1..Len(sScores)}
               = {sSemantic[i].id : i \in 1..Len(sSemantic)}
                     \cup {sKeyword[i].id : i \in 1..Len(sKeyword)}
        /\ \A i, j \in 1..Len(sScores) : sScores[i].id = sScores[j].id => i = j
        /\ \A i \in 1..Len(sScores) :
              FracEq(sScores[i].score,
                     FracAdd(Contribution(sSemantic, sScores[i].id, RrfK),
                             Contribution(sKeyword, sScores[i].id, RrfK)))
        /\ (IdsOf(sSemantic) = <<"A", "B", "C">> /\ IdsOf(sKeyword) = <<"B", "D">>) =>
              /\ RrfK = 60
              /\ FracEq(ScoreOf(sScores, "A"), Frac(1, 61))
              /\ FracEq(ScoreOf(sScores, "B"), FracAdd(Frac(1, 62), Frac(1, 61)))
              /\ FracEq(ScoreOf(sScores, "C"), Frac(1, 63))
              /\ FracEq(ScoreOf(sScores, "D"), Frac(1, 62))
              /\ FracLess(ScoreOf(sScores, "A"), ScoreOf(sScores, "B"))
              /\ FracLess(ScoreOf(sScores, "D"), ScoreOf(sScores, "A"))
              /\ FracLess(ScoreOf(sScores, "C"), ScoreOf(sScores, "D"))

\* A hybrid search that fused the lists [A, B, C] and [B, D].
C14_Witness ==
    /\ sVariant = "hybrid"
    /\ spc = "settled"
    /\ sOut.error = "none"
    /\ IdsOf(sSemantic) = <<"A", "B", "C">>
    /\ IdsOf(sKeyword) = <<"B", "D">>
    /\ Len(sScores) = 4

\* C15: in the list a hybrid search returns, of two exchanges with identical
\* RRF scores and different ages the more recent one comes strictly before
\* the older one.
C15_TemporalTieBreak ==
    (sVariant = "hybrid" /\ spc = "settled") =>
        \A i, j \in 1..Len(sOut.exchanges) :
            (/\ FracEq(sOut.exchanges[i].rrfScore, sOut.exchanges[j].rrfScore)
             /\ AgeDays(DocRows[sOut.exchanges[i].id]) < AgeDays(DocRows[sOut.exchanges[j].id]))
                => i < j

\* C16 as stated: search never rejects, and whenever the database handle is
\* missing, no embedding function is available, the embedding call fails or
\* a query fails, it resolves to empty exchanges and distances and an error
\* field.
C16_AnyFailureIsError ==
    /\ sOut.kind # "rejected"
    /\ spc = "settled" =>
          /\ sOut.kind = "resolved"
          /\ sFailed \cap {"noDb", "noEmbeddingFn", "embedThrew", "vecQueryThrew",
                           "ftsQueryThrew"} # {} =>
                 /\ sOut.exchanges = <<>>
                 /\ sOut.distances = <<>>
                 /\ sOut.error # "none"

\* C16, amended: search never rejects, and whenever the database handle is
\* missing, no embedding function is available, the embedding call throws or
\* the vec_exchanges query throws, it resolves to empty exchanges and
\* distances and an error field; a throwing fts_exchanges query of the
\* hybrid searcher counts as no keyword rows and sets no error field.
C16_NeverThrows ==
    /\ sOut.kind # "rejected"
    /\ spc = "settled" =>
          /\ sOut.kind = "resolved"
          /\ sFailed \cap {"noDb", "noEmbeddingFn", "embedThrew", "vecQueryThrew"} # {} =>
                 /\ sOut.exchanges = <<>>
                 /\ sOut.distances = <<>>
                 /\ sOut.error # "none"
          /\ "ftsQueryThrew" \in sFailed =>
                 /\ sOut.error = "none"
                 /\ sKeyword = <<>>
                 /\ Len(sOut.exchanges) = Len(Take(sSemantic, sLimit))

\* A hybrid search whose fts_exchanges query threw and that still returned
\* the exchanges of the vec_exchanges query.
C16_Witness ==
    /\ sVariant = "hybrid"
    /\ spc = "settled"
    /\ "ftsQueryThrew" \in sFailed
    /\ sOut.exchanges # <<>>

\* The side of the relevance threshold that means relevant: below it with
\* the semantic-only searcher, above it with the hybrid searcher.
RelevantSide(score) ==
    IF sVariant = "hybrid" THEN score > RelevanceThreshold ELSE score < RelevanceThreshold

\* C17: when the noise-filtered result of before_agent_start's search is
\* non-empty, the recall block is injected exactly when the user text has
\* continuity intent or the top result's composite score is on the relevant
\* side of the relevance threshold.
C17_InjectionDecision ==
    [][(tpc = "basSearch" /\ tpc' = "idle" /\ lastRetrievalCache'.set) =>
          ((ret'.shown # <<>>)
              <=> (tIntent \/ RelevantSide(lastRetrievalCache'.exchanges[1].compositeScore)))]_vars

\* Every compositeScore a hybrid search returns is below the relevance
\* threshold of before_agent_start (1.0, in thousandths).
HybridScoreBelowThreshold ==
    sVariant = "hybrid" =>
        \A i \in 1..Len(sOut.exchanges) :
            FracLess(sOut.exchanges[i].compositeScore, Frac(1000 * RelevanceThreshold, 1))

\* C18: a before_agent_start whose user text, stripped of injected blocks,
\* is shorter than 10 characters returns without awaiting storage or the
\* searcher, injects no recall block and leaves lastRetrievalCache empty.
C18_ShortTextNoSearch ==
    [][(\E intent \in BOOLEAN : BeforeAgentStart("ok", FALSE, intent)) =>
          /\ tpc' = "idle"
          /\ ret'.handler = "before_agent_start"
          /\ ret'.kind = "resolved"
          /\ ret'.prependContext = ContextLines
          /\ ret'.shown = <<>>
          /\ lastRetrievalCache'.set = FALSE
          /\ lastRetrievalCache'.exchanges = <<>>]_vars

\* A before_agent_start with a short text has returned: storage was never
\* awaited, no search ran, and the handler gave only its context lines.
C18_Witness ==
    /\ ret.handler = "before_agent_start"
    /\ ret.prependContext = ContextLines
    /\ exchangeCount = 1
    /\ ~storageReady
    /\ lastRetrievalCache = NoCache

\* The noise filter rejects the exchange.
Rejected(ex) == ex.text = "denial"

\* C19: tool_result_persist returns a replacement message only when the tool
\* is memory_search, the result text parses as JSON, the built-in results
\* number fewer than 2, a cached retrieval exists and at least one cached
\* exchange passes the noise filter; in every other case it returns nothing.
C19_PersistOnlyWhenSparse ==
    [][(tpc = "idle" /\ tpc' = "idle") =>
       \A toolName \in ToolNames, parsed \in ParsedKinds, builtinResults \in 0..SparseLimit :
          ToolResultPersist(toolName, parsed, builtinResults) =>
              LET case == /\ toolName = "memory_search"
                          /\ parsed # "invalid"
                          /\ builtinResults < 2
                          /\ lastRetrievalCache.set
                          /\ \E i \in 1..Len(lastRetrievalCache.exchanges) :
                                ~Rejected(lastRetrievalCache.exchanges[i])
              IN /\ ret'.kind = "message" => case
                 /\ ~case => (ret'.kind = "undefined" /\ ret'.shown = <<>>)]_vars

\* tool_result_persist has returned a replacement message.
C19_Witness ==
    /\ ret.handler = "tool_result_persist"
    /\ ret.kind = "message"
    /\ ret.shown # <<>>

\* C20: no exchange the noise filter rejects is shown to the model, neither
\* in the recall block of before_agent_start nor in the recall block and
\* archive entries of tool_result_persist, whichever handler filled the cache.
C20_NoNoiseShown ==
    \A i \in 1..Len(ret.shown) : ~Rejected(ret.shown[i])

\* tool_result_persist has shown exchanges from a cache that before_tool_call
\* filled and that holds an exchange the noise filter rejects.
C20_Witness ==
    /\ ret.handler = "tool_result_persist"
    /\ ret.kind = "message"
    /\ \E i \in 1..Len(lastRetrievalCache.exchanges) :
          Rejected(lastRetrievalCache.exchanges[i])

\* C21: whenever a before_agent_start handler finishes, however the agent's
\* handlers interleave, lastRetrievalCache is empty or holds the
\* noise-filtered result of a search of that handler's own turn, never a
\* result of an earlier turn's before_agent_start or before_tool_call.
C21_CacheOfOwnTurn ==
    [][\A h \in Handlers :
          (hkind'[h] = "before_agent_start" /\ hpc[h] # "done" /\ hpc'[h] = "done") =>
              \/ hCache' = NoCache
              \/ /\ hCacheBy' # 0
                 /\ hturn'[hCacheBy'] = hturn'[h]
                 /\ \A i \in 1..Len(hCache'.exchanges) : hCache'.exchanges[i].text # "denial"]_vars

\* C22: while a topic stays tracked (no pruning of it in between), its
\* mentions counter never decreases, and one track call raises it by at most
\* 1 however often the topic occurs in the text.
C22_MentionsMonotone ==
    [][\A w \in Words :
          (/\ topics[w].tracked
           /\ topics'[w].tracked
           /\ ~(OutsideWindow(topics[w], currentExchange') /\ topics'[w] # topics[w])) =>
              /\ topics'[w].mentions >= topics[w].mentions
              /\ topics'[w].mentions <= topics[w].mentions + 1]_vars

\* A track call whose text held the topic twice has raised the mentions of a
\* topic that was already tracked.
C22_Witness ==
    /\ topics[Subject].tracked
    /\ topics[Subject].mentions >= 2
    /\ topics[Subject].lastSeen = currentExchange
    /\ lastOccur >= 2

\* C23: whenever topics are read (getAllTopics, getFixatedTopics, the Topics
\* line of before_agent_start), no reported topic has
\* lastSeen < currentExchange - windowSize.
C23_NoStaleTopicReported ==
    \A w \in GetAllTopics(topics) \cup GetFixatedTopics(topics) :
        topics[w].lastSeen >= currentExchange - WindowSize

Range(seq) == {seq[i] : i \in 1..Len(seq)}

\* C25: when a run of execute() ends, every step after the batch index has
\* run, report.errors names exactly the steps that failed (batch index,
\* prune, stats), and execute() has resolved with the report.
C25_StepFailuresRecorded ==
    [][\A r \in 1..Len(mRuns') :
          (mRuns'[r].pc = "done" /\ (r > Len(mRuns) \/ mRuns[r].pc # "done")) =>
              /\ mRuns'[r].settled = "resolved"
              /\ mRuns'[r].ran = {"prune", "stats", "log"}
              /\ ("Prune" \in Range(mRuns'[r].errors)) <=> mPruneFails
              /\ ("Stats" \in Range(mRuns'[r].errors)) <=> mStatsFails
              /\ ("Batch index" \in Range(mRuns'[r].errors))
                    <=> (r <= Len(mRuns) /\ mRuns[r].pc = "indexDay" /\ ~mIndexerReady)]_vars

\* A run has ended whose batch index and pruning both failed and whose
\* statistics step still ran.
C25_Witness ==
    \E r \in 1..Len(mRuns) :
        /\ mRuns[r].pc = "done"
        /\ mRuns[r].errors = <<"Batch index", "Prune">>
        /\ "stats" \in mRuns[r].ran
        /\ mRuns[r].settled = "resolved"

\* C26: when an indexDay call has returned, its date is in the index log and
\* every exchange of the day except those whose embedding or write failed
\* has its row in exchanges and in vec_exchanges: a failing exchange is
\* skipped and does not stop the loop.
C26_SkipAndMarkIndexed ==
    \A c \in IdxCalls :
        ipc[c] = "done" =>
            /\ idate[c] \in indexLog
            /\ iidx[c] = Len(ipairs[c])
            /\ \A i \in 0..(Len(ipairs[c]) - 1) :
                  i \notin iskip[c] =>
                      /\ ExchangeId(idate[c], i) \in DOMAIN db.exchanges
                      /\ ExchangeId(idate[c], i) \in db.vec

\* An indexDay call has returned that skipped one exchange and indexed a
\* later one; its date is in the index log.
C26_Witness ==
    \E c \in IdxCalls :
        /\ ipc[c] = "done"
        /\ idate[c] \in indexLog
        /\ \E i \in iskip[c] :
              \E j \in 0..(Len(ipairs[c]) - 1) :
                  j > i /\ j \notin iskip[c] /\ ExchangeId(idate[c], j) \in DOMAIN db.exchanges

\* C27: when the storage initialisation left no searcher, or the archive
\* search failed (it gave no exchanges), before_agent_start still resolves
\* with the [CONTINUITY CONTEXT] header and the session line, and without a
\* recall block.
C27_ContextSurvivesFailure ==
    [][((tpc = "basStorage" /\ BasStorageSettles(TRUE) /\ tpc' = "idle")
          \/ (tpc = "basSearch" /\ BasSearchGives(<<>>))) =>
              /\ ret'.handler = "before_agent_start"
              /\ ret'.kind = "resolved"
              /\ ret'.prependContext = ContextLines
              /\ ret'.shown = <<>>]_vars

\* before_agent_start has returned its context lines after a storage
\* initialisation that left no searcher.
C27_Witness ==
    /\ ret.handler = "before_agent_start"
    /\ ret.prependContext = ContextLines
    /\ storageReady
    /\ searcher = 0
    /\ exchangeCount = 1
    /\ tpc = "idle"

\* C28: whenever storageReady is true, the agent's Indexer (when it has one)
\* has completed initialize() successfully, so that a later indexDay on it
\* is not rejected with 'Indexer not initialized'.
C28_ReadyMeansInitialized ==
    (storageReady /\ indexer # 0) => indexer \in indexerOk

\* older is an earlier snapshot of the day file that newer is a snapshot of:
\* the file only grows, here at its end.
EarlierSnapshot(older, newer) ==
    /\ Len(older) < Len(newer)
    /\ SubSeq(newer, 1, Len(older)) = older

\* C30: when two indexDay calls for one date have overlapped, one on an
\* older and one on a newer snapshot of the day's messages, and both have
\* returned without skipping an exchange, every exchanges row of the date
\* holds the user and agent text of the newer snapshot's pairing.
C30_NewerSnapshotWins ==
    \A o, n \in IdxCalls :
        (/\ o # n
         /\ ipc[o] = "done" /\ ipc[n] = "done"
         /\ idate[o] = idate[n]
         /\ overlap
         /\ iskip[o] = {} /\ iskip[n] = {}
         /\ EarlierSnapshot(imsgs[o], imsgs[n])) =>
            \A i \in 0..(Len(ipairs[n]) - 1) :
                db.exchanges[ExchangeId(idate[n], i)] = ExchangeRow(ipairs[n][i + 1])

\* C29: every message agent_end has written to the archive is eventually in
\* the snapshot of an indexDay call that finished, whatever the date of its
\* timestamp and whether or not that date is already in the index log.
C29_EveryMessageIndexed ==
    \A m \in CoverMsgs : (m \in Archived(cFile)) ~> (m \in cCovered)

\* An anchor of e's type is retained for the message at e's index.
RecreatedAfterExpiry(e) ==
    /\ \E k \in 1..Len(anchors) :
          anchors[k].type = e.type /\ anchors[k].messageIndex = e.messageIndex

\* C31: once the age filter has dropped the anchor of a message, no later
\* detect call of the session, whose messages still have that message at its
\* index, leaves an anchor of that type for it.
C31_ExpiredAnchorStaysGone ==
    aOp = "detect" => \A e \in aExpired : ~RecreatedAfterExpiry(e)

\* C33: after a detect call on a non-empty list, every retained anchor is
\* no older than maxAge, there are at most maxCount of them, and they are in
\* descending order of priority, then of timestamp.
C33_PrunedAndOrdered ==
    (aOp = "detect" /\ aLast # <<>>) =>
        /\ \A k \in 1..Len(anchors) : anchors[k].timestamp >= aNow - AnchorMaxAge
        /\ Len(anchors) <= AnchorMaxCount
        /\ \A j, k \in 1..Len(anchors) :
              j < k => \/ anchors[j].priority > anchors[k].priority
                       \/ /\ anchors[j].priority = anchors[k].priority
                          /\ anchors[j].timestamp >= anchors[k].timestamp

\* A detect call that dropped an expired anchor and cut the list to maxCount,
\* leaving anchors of two priorities.
C33_Witness ==
    /\ aOp = "detect"
    /\ aLast # <<>>
    /\ aExpired # {}
    /\ Len(anchors) = AnchorMaxCount
    /\ anchors[1].priority > anchors[2].priority

\* C34: every retained anchor comes from a user message, and no two retained
\* anchors have the same type and messageIndex.
C34_UserOnlyNoDuplicates ==
    /\ \A k \in 1..Len(anchors) : anchors[k].role = "user"
    /\ \A j, k \in 1..Len(anchors) :
          (anchors[j].type = anchors[k].type
           /\ anchors[j].messageIndex = anchors[k].messageIndex) => j = k

\* A second detect call over a list with an assistant message and a user
\* message that already has its anchor.
C34_Witness ==
    /\ aOp = "detect"
    /\ Len(aLast) = 2
    /\ aLast[1].role = "assistant"
    /\ aLast[2].role = "user"
    /\ Len(anchors) = 1
    /\ anchors[1].messageIndex = 2
    /\ anchors[1].timestamp < aNow

\* C32: every agent whose storage is ready eventually has its interval
\* timer run execute(), whether the agent was known when the service started
\* or was first seen afterwards.
C32_EveryReadyAgentMaintained ==
    \A a \in AgentKeys : (a \in vReady) ~> (a \in vCycled)

C36_TaskAwareOrderNoRepeat ==
    (kResult.set /\ kResult.first = "task-aware") =>
        \A j, k \in 1..Len(kResult.tried) :
            j < k => kResult.tried[j].src < kResult.tried[k].src


====
